---------------------------- MODULE Spec2Model ----------------------------
(***************************************************************************)
(* A model of the intra-block merge and aggregation code of tycho-indexer  *)
(* (tycho-indexer/src/extractor/evm/mod.rs): the per-account merge         *)
(* (AccountUpdate, AccountUpdateWithTx), the per-component merge           *)
(* (ProtocolState, ProtocolStatesWithTx) and the two block aggregators     *)
(* (BlockContractChanges, BlockEntityChanges).                             *)
(*                                                                         *)
(* Conventions.  H256 / H160 / U256 values are naturals; hash 0 is         *)
(* H256::zero().  Option<T> is a sequence of length at most one: None is   *)
(* <<>> and Some(v) is <<v>>.  A HashMap is a function whose DOMAIN is the  *)
(* set of keys present.  A Result of a `&mut self` method is a record      *)
(* [ok, self, err]: `self` is the receiver as the call leaves it (also     *)
(* when it returns Err) and `err` the error returned.  The Transaction     *)
(* fields `from` and `to` are never read by the code modelled here and are *)
(* left out.                                                               *)
(***************************************************************************)
EXTENDS Integers, Sequences, FiniteSets, TLC

VARIABLES
    self,        \* receiver of a merge call, as the call leaves it
    other,       \* argument of the last merge call
    prev,        \* the receiver before the last merge call
    res,         \* what the last merge call returned
    operands,    \* three updates to be folded in two groupings
    lhs,         \* outcome of merge(merge(a, b), c)
    rhs,         \* outcome of merge(a, merge(b, c))
    msg,         \* upstream block message
    decoded,     \* outcome of try_from_message(msg)
    aggregated,  \* outcome of aggregate_updates on the decoded block
    block,       \* Ethereum block given to map_pool_changes
    pool_changes \* outcome of map_pool_changes(block)

mergeVars == <<self, other, prev, res>>
assocVars == <<operands, lhs, rhs>>
blockVars == <<msg, decoded, aggregated>>
poolVars == <<block, pool_changes>>
vars == <<self, other, prev, res, operands, lhs, rhs, msg, decoded, aggregated,
          block, pool_changes>>

--------------------------------------------------------------------------
(* Bounds of the model *)

MaxIndex == 1        \* transaction indices are 0..MaxIndex
MaxVal == 2          \* slot values, balances, code and attribute values are 1..MaxVal

--------------------------------------------------------------------------
(* Values *)

None == <<>>
Some(v) == <<v>>
Opt(S) == {None} \cup {Some(v) : v \in S}

\* Option::or
OptionOr(x, y) == IF x # None THEN x ELSE y

\* all HashMap<K, V> with keys among K and values among V
Maps(K, V) == UNION {[D -> V] : D \in SUBSET K}

EmptyMap == [k \in {} |-> 0]

\* HashMap::extend read as keeping the entry m1 already has for a key
Extend_KeepExisting(m1, m2) ==
    [k \in (DOMAIN m1) \cup (DOMAIN m2) |-> IF k \in DOMAIN m1 THEN m1[k] ELSE m2[k]]

\* HashMap::extend: the entries of m2 are inserted into m1, replacing equal keys
Extend(m1, m2) ==
    [k \in (DOMAIN m1) \cup (DOMAIN m2) |-> IF k \in DOMAIN m2 THEN m2[k] ELSE m1[k]]

\* HashMap::remove of every key in ks
RemoveKeys(m, ks) == [k \in (DOMAIN m) \ ks |-> m[k]]

Unused == <<>>
NotCalled == [ok |-> FALSE, called |-> FALSE]

Chains == {"Ethereum", "Starknet", "ZkSync"}
ChangeTypes == {"Update", "Creation", "Deletion"}

Addresses == {1, 2}
TxHashes == {0, 1}
BlockHashes == {0, 1}
SlotKeys == {0}
Vals == 1..MaxVal
Codes == {1, 2}
Indices == 0..MaxIndex

\* (chain, change) pairs the merge inputs are drawn from
Shapes == {<<"Ethereum", "Creation">>, <<"Starknet", "Update">>}

Transactions == [hash : TxHashes, block_hash : BlockHashes, index : Indices]

\* Transaction::default()
DefaultTransaction == [hash |-> 0, block_hash |-> 0, index |-> 0]

AccountUpdates ==
    {[address |-> ad, chain |-> sh[1], slots |-> sl, balance |-> ba, code |-> co,
      change |-> sh[2]] :
        ad \in Addresses, sh \in Shapes, sl \in Maps(SlotKeys, Vals),
        ba \in Opt(Vals), co \in Opt(Codes)}

AccountUpdateWithTxs == [update : AccountUpdates, tx : Transactions]

\* the inputs of a fold of three merges: three transaction hashes, one more
\* index than Indices, updates whose code is set as their balance is
FoldTxHashes == {0, 1, 2}
FoldIndices == 0..(MaxIndex + 1)
FoldTransactions == [hash : FoldTxHashes, block_hash : BlockHashes, index : FoldIndices]
FoldUpdates == {u \in AccountUpdates : u.chain = "Ethereum" /\ u.code = u.balance}

ComponentIds == {1, 2}
AttrNames == {"reserve"}
DeletedVals == {0}

\* the ProtocolStates of component `id` last modified by transaction hash `h`
ProtocolStatesOf(id, h) ==
    [component_id : {id}, updated_attributes : Maps(AttrNames, Vals),
     deleted_attributes : Maps(AttrNames, DeletedVals), modify_tx : {h}]

\* ProtocolStatesWithTx whose map keys are the component ids of the states
\* stored under them (what ProtocolStatesWithTx::try_from_message builds)
KeyedProtocolStatesWithTxs ==
    UNION {UNION {{[protocol_states |-> ps, tx |-> tx] :
                      ps \in {f \in [D -> UNION {ProtocolStatesOf(id, tx.hash) : id \in D}] :
                                 \A k \in D : f[k].component_id = k}} :
                  D \in SUBSET ComponentIds} :
           tx \in Transactions}

\* ProtocolStatesWithTx with one entry stored under another key than its
\* component id (the fields are public; the decoder never builds one)
MisKeyedProtocolStatesWithTxs ==
    {[protocol_states |-> [k \in {key} |-> st], tx |-> tx] :
        key \in ComponentIds, tx \in Transactions,
        st \in {x \in UNION {ProtocolStatesOf(id, 0) : id \in ComponentIds} :
                  /\ x.updated_attributes = [n \in AttrNames |-> 1]
                  /\ x.deleted_attributes = EmptyMap}}

ProtocolStatesWithTxs ==
    KeyedProtocolStatesWithTxs \cup
    {x \in MisKeyedProtocolStatesWithTxs :
        \A k \in DOMAIN x.protocol_states : x.protocol_states[k].component_id # k}

\* the orders in which a HashMap over the key set S may be iterated
Orders(S) ==
    {q \in [1..Cardinality(S) -> S] : \A i, j \in 1..Cardinality(S) : q[i] = q[j] => i = j}

\* Upstream messages (substreams protobuf).  A bytes field that the decoder
\* tests for emptiness (balance, code) is <<>> when empty and <<v>> when it
\* holds the big-endian bytes of v; the other byte fields are given by the
\* value they parse to.
MaxChanges == 2           \* transactions of an upstream block message
MaxContractChanges == 2   \* contract changes of one transaction

MsgChangeTypes == ChangeTypes \cup {"Unspecified"}

SeqsUpTo(S, n) == UNION {[1..k -> S] : k \in 0..n}

\* substreams::Transaction
MsgTransactions == [hash : TxHashes, index : Indices]

\* substreams::ContractChange
MsgContractChanges ==
    [address : Addresses, balance : Opt({MaxVal}), code : {<<>>}, slots : {<<>>},
     change : {"Update"}]

\* substreams::ProtocolComponent
MsgProtocolComponents == [id : {1}, change : {"Creation"}]

\* substreams::TransactionContractChanges
MsgTransactionContractChanges ==
    [tx : Opt(MsgTransactions),
     contract_changes : SeqsUpTo(MsgContractChanges, MaxContractChanges),
     component_changes : SeqsUpTo(MsgProtocolComponents, 1)]

\* substreams::BlockContractChanges
MsgBlockContractChanges ==
    [block : Opt({1}), changes : SeqsUpTo(MsgTransactionContractChanges, MaxChanges)]

MaxEntityChanges == 2     \* entity changes of one transaction

StateAttrNames == {"reserve", "fee"}

AttrVals == {1, 2}

\* substreams::Attribute
MsgAttributes == [name : StateAttrNames, value : AttrVals, change : ChangeTypes]

\* substreams::EntityChanges
MsgEntityChanges == [component_id : ComponentIds, attributes : SeqsUpTo(MsgAttributes, 2)]

\* substreams::EntityChanges of one attribute, as they occur in block messages
MsgBlockEntityChanges ==
    [component_id : ComponentIds,
     attributes : {<<[name |-> "reserve", value |-> 1, change |-> c]>> :
                      c \in {"Update", "Deletion"}}]

\* substreams::TransactionEntityChanges
MsgTransactionEntityChanges ==
    [tx : Opt(MsgTransactions),
     entity_changes : SeqsUpTo(MsgBlockEntityChanges, MaxEntityChanges),
     component_changes : SeqsUpTo(MsgProtocolComponents, 1)]

\* substreams::BlockEntityChanges
MsgBlockEntityChangesMessages ==
    [block : Opt(BlockHashes), changes : SeqsUpTo(MsgTransactionEntityChanges, MaxChanges)]

\* Messages given to the decoders one at a time: every change type,
\* Unspecified included, and byte fields of right and wrong lengths.
MaxBalanceLen == 9        \* bytes of BalanceChange.balance

Bytes == {0, 1}

\* an address field of `len` bytes whose bytes, left-padded, read `value`
MsgAddressBytes == [len : {20, 21}, value : Addresses]

\* a component id field that is or is not valid UTF-8
MsgUtf8Bytes == [utf8 : BOOLEAN, value : ComponentIds]

\* substreams::ContractChange, any change type
AnyMsgContractChanges ==
    [address : Addresses, balance : Opt(Vals), code : Opt(Codes),
     slots : SeqsUpTo([slot : SlotKeys, value : Vals], 2), change : MsgChangeTypes]

\* substreams::EntityChanges, any change type
AnyMsgEntityChanges ==
    [component_id : ComponentIds,
     attributes : SeqsUpTo([name : StateAttrNames, value : AttrVals, change : MsgChangeTypes], 2)]

\* substreams::ProtocolComponent, any change type
AnyMsgProtocolComponents == [id : ComponentIds, change : MsgChangeTypes]

\* substreams::BalanceChange
MsgBalanceChanges ==
    [token : MsgAddressBytes,
     balance : SeqsUpTo(Bytes, MaxBalanceLen),
     component_id : MsgUtf8Bytes]

\* substreams::BlockContractChanges of at most one transaction, any change type
OneTxMsgBlockContractChanges ==
    [block : Opt({1}),
     changes : SeqsUpTo(
         [tx : Opt(MsgTransactions),
          contract_changes :
              SeqsUpTo([address : Addresses, balance : {<<>>}, code : {<<>>},
                        slots : {<<>>}, change : MsgChangeTypes], MaxContractChanges),
          component_changes : SeqsUpTo([id : {1}, change : MsgChangeTypes], 1)], 1)]

\* substreams::BlockEntityChanges of at most one transaction, any change type
OneTxMsgBlockEntityChanges ==
    [block : Opt(BlockHashes),
     changes : SeqsUpTo(
         [tx : Opt(MsgTransactions),
          entity_changes :
              SeqsUpTo([component_id : ComponentIds,
                        attributes : {<<[name |-> "reserve", value |-> 1, change |-> c]>> :
                                         c \in MsgChangeTypes}], MaxEntityChanges),
          component_changes : SeqsUpTo([id : {1}, change : MsgChangeTypes], 1)], 1)]

--------------------------------------------------------------------------
(* Errors *)

NoError == [kind |-> "none", text |-> "", args |-> <<>>]
MergeError(text, args) == [kind |-> "MergeError", text |-> text, args |-> args]

Ok(s) == [ok |-> TRUE, called |-> TRUE, self |-> s, err |-> NoError]
Err(s, e) == [ok |-> FALSE, called |-> TRUE, self |-> s, err |-> e]

\* the Result of a function that returns a value: Ok(v), Err(e) or a panic
Empty == [kind |-> "Empty", text |-> "", args |-> <<>>]
Panic(text) == [kind |-> "panic", text |-> text, args |-> <<>>]
PanicWith(e) == [kind |-> "panic", text |-> e.text, args |-> e.args]
DecodeError(text) == [kind |-> "DecodeError", text |-> text, args |-> <<>>]
Return(v) == [ok |-> TRUE, called |-> TRUE, val |-> v, err |-> NoError]
Fail(e) == [ok |-> FALSE, called |-> TRUE, val |-> <<>>, err |-> e]

--------------------------------------------------------------------------
(* Per-account merge *)

\* Option::xor
OptionXor(x, y) == IF x # None /\ y = None THEN x ELSE IF x = None /\ y # None THEN y ELSE None

\* AccountUpdate::merge calling Option::xor where the code calls Option::or
AccountUpdateMerge_Xor(s, o) ==
    IF s.address # o.address
    THEN Err(s, MergeError("Can't merge AccountUpdates from differing identities",
                           <<s.address, o.address>>))
    ELSE Ok([s EXCEPT !.slots = Extend(s.slots, o.slots),
                      !.balance = OptionXor(o.balance, s.balance),
                      !.code = OptionXor(o.code, s.code)])

\* AccountUpdate::merge with the precedence of balance and code reversed
AccountUpdateMerge_SelfWins(s, o) ==
    IF s.address # o.address
    THEN Err(s, MergeError("Can't merge AccountUpdates from differing identities",
                           <<s.address, o.address>>))
    ELSE Ok([s EXCEPT !.slots = Extend(s.slots, o.slots),
                      !.balance = OptionOr(s.balance, o.balance),
                      !.code = OptionOr(s.code, o.code)])

\* AccountUpdate::merge requiring the same chain as well
AccountUpdateMerge_ChainChecked(s, o) ==
    IF s.address # o.address \/ s.chain # o.chain
    THEN Err(s, MergeError("Can't merge AccountUpdates from differing identities",
                           <<s.address, o.address>>))
    ELSE Ok([s EXCEPT !.slots = Extend(s.slots, o.slots),
                      !.balance = OptionOr(o.balance, s.balance),
                      !.code = OptionOr(o.code, s.code)])

\* AccountUpdate::merge
AccountUpdateMerge(s, o) ==
    IF s.address # o.address
    THEN Err(s, MergeError("Can't merge AccountUpdates from differing identities",
                           <<s.address, o.address>>))
    ELSE Ok([s EXCEPT !.slots = Extend(s.slots, o.slots),
                      !.balance = OptionOr(o.balance, s.balance),
                      !.code = OptionOr(o.code, s.code)])

\* AccountUpdateWithTx::merge with the same-transaction test made before the
\* block test
AccountUpdateWithTxMerge_TxFirst(s, o) ==
    IF s.tx.hash = o.tx.hash
    THEN Err(s, MergeError("Can't merge AccountUpdates from the same transaction",
                           <<s.tx.hash>>))
    ELSE IF s.tx.block_hash # o.tx.block_hash
    THEN Err(s, MergeError("Can't merge AccountUpdates from different blocks",
                           <<s.tx.block_hash, o.tx.block_hash>>))
    ELSE IF s.tx.index > o.tx.index
    THEN Err(s, MergeError("Can't merge AccountUpdates with lower transaction index",
                           <<s.tx.index, o.tx.index>>))
    ELSE LET r == AccountUpdateMerge(s.update, o.update)
         IN  [r EXCEPT !.self = [update |-> r.self, tx |-> o.tx]]

\* AccountUpdateWithTx::merge without the same-transaction test
AccountUpdateWithTxMerge_NoTxTest(s, o) ==
    IF s.tx.block_hash # o.tx.block_hash
    THEN Err(s, MergeError("Can't merge AccountUpdates from different blocks",
                           <<s.tx.block_hash, o.tx.block_hash>>))
    ELSE IF s.tx.index > o.tx.index
    THEN Err(s, MergeError("Can't merge AccountUpdates with lower transaction index",
                           <<s.tx.index, o.tx.index>>))
    ELSE LET r == AccountUpdateMerge(s.update, o.update)
         IN  [r EXCEPT !.self = [update |-> r.self, tx |-> o.tx]]

\* AccountUpdateWithTx::merge with the index test reversed
AccountUpdateWithTxMerge_IndexReversed(s, o) ==
    IF s.tx.block_hash # o.tx.block_hash
    THEN Err(s, MergeError("Can't merge AccountUpdates from different blocks",
                           <<s.tx.block_hash, o.tx.block_hash>>))
    ELSE IF s.tx.hash = o.tx.hash
    THEN Err(s, MergeError("Can't merge AccountUpdates from the same transaction",
                           <<s.tx.hash>>))
    ELSE IF s.tx.index < o.tx.index
    THEN Err(s, MergeError("Can't merge AccountUpdates with lower transaction index",
                           <<s.tx.index, o.tx.index>>))
    ELSE LET r == AccountUpdateMerge(s.update, o.update)
         IN  [r EXCEPT !.self = [update |-> r.self, tx |-> o.tx]]

\* AccountUpdateWithTx::merge
AccountUpdateWithTxMerge(s, o) ==
    IF s.tx.block_hash # o.tx.block_hash
    THEN Err(s, MergeError("Can't merge AccountUpdates from different blocks",
                           <<s.tx.block_hash, o.tx.block_hash>>))
    ELSE IF s.tx.hash = o.tx.hash
    THEN Err(s, MergeError("Can't merge AccountUpdates from the same transaction",
                           <<s.tx.hash>>))
    ELSE IF s.tx.index > o.tx.index
    THEN Err(s, MergeError("Can't merge AccountUpdates with lower transaction index",
                           <<s.tx.index, o.tx.index>>))
    ELSE LET r == AccountUpdateMerge(s.update, o.update)
         IN  [r EXCEPT !.self = [update |-> r.self, tx |-> o.tx]]

--------------------------------------------------------------------------
(* Per-component merge *)

\* ProtocolState::merge without the removal of the keys of other from the
\* opposite map
ProtocolStateMerge_NoRemove(s, o) ==
    IF s.component_id # o.component_id
    THEN Err(s, MergeError("Can't merge ProtocolStates from differing identities",
                           <<s.component_id, o.component_id>>))
    ELSE Ok([component_id |-> s.component_id,
             updated_attributes |-> Extend(s.updated_attributes, o.updated_attributes),
             deleted_attributes |-> Extend(s.deleted_attributes, o.deleted_attributes),
             modify_tx |-> o.modify_tx])

\* ProtocolState::merge taking modify_tx of other before the identity test
ProtocolStateMerge_TxBeforeTest(s, o) ==
    IF s.component_id # o.component_id
    THEN Err([s EXCEPT !.modify_tx = o.modify_tx],
             MergeError("Can't merge ProtocolStates from differing identities",
                        <<s.component_id, o.component_id>>))
    ELSE Ok([component_id |-> s.component_id,
             updated_attributes |->
                 Extend(RemoveKeys(s.updated_attributes, DOMAIN o.deleted_attributes),
                        o.updated_attributes),
             deleted_attributes |->
                 Extend(RemoveKeys(s.deleted_attributes, DOMAIN o.updated_attributes),
                        o.deleted_attributes),
             modify_tx |-> o.modify_tx])

\* ProtocolState::merge keeping the modify_tx of self
ProtocolStateMerge_KeepModifyTx(s, o) ==
    IF s.component_id # o.component_id
    THEN Err(s, MergeError("Can't merge ProtocolStates from differing identities",
                           <<s.component_id, o.component_id>>))
    ELSE Ok([component_id |-> s.component_id,
             updated_attributes |->
                 Extend(RemoveKeys(s.updated_attributes, DOMAIN o.deleted_attributes),
                        o.updated_attributes),
             deleted_attributes |->
                 Extend(RemoveKeys(s.deleted_attributes, DOMAIN o.updated_attributes),
                        o.deleted_attributes),
             modify_tx |-> s.modify_tx])

\* ProtocolState::merge
ProtocolStateMerge(s, o) ==
    IF s.component_id # o.component_id
    THEN Err(s, MergeError("Can't merge ProtocolStates from differing identities",
                           <<s.component_id, o.component_id>>))
    ELSE Ok([component_id |-> s.component_id,
             updated_attributes |->
                 Extend(RemoveKeys(s.updated_attributes, DOMAIN o.deleted_attributes),
                        o.updated_attributes),
             deleted_attributes |->
                 Extend(RemoveKeys(s.deleted_attributes, DOMAIN o.updated_attributes),
                        o.deleted_attributes),
             modify_tx |-> o.modify_tx])

\* the loop of ProtocolStatesWithTx::merge inserting every entry of other,
\* an occupied entry included
RECURSIVE MergeProtocolStates_Overwrite(_, _, _, _)
MergeProtocolStates_Overwrite(states, ostates, order, i) ==
    IF i > Len(order)
    THEN Ok(states)
    ELSE MergeProtocolStates_Overwrite(Extend(states, [k \in {order[i]} |-> ostates[order[i]]]),
                                       ostates, order, i + 1)

\* the loop of ProtocolStatesWithTx::merge over other.protocol_states, visited
\* in the order `order`, from position i on; `states` is self.protocol_states
RECURSIVE MergeProtocolStates(_, _, _, _)
MergeProtocolStates(states, ostates, order, i) ==
    IF i > Len(order)
    THEN Ok(states)
    ELSE LET key == order[i]
             value == ostates[key]
         IN  IF key \in DOMAIN states
             THEN LET r == ProtocolStateMerge(states[key], value)
                  IN  IF r.ok
                      THEN MergeProtocolStates([states EXCEPT ![key] = r.self],
                                               ostates, order, i + 1)
                      ELSE Err(states, r.err)
             ELSE MergeProtocolStates(Extend(states, [k \in {key} |-> value]),
                                      ostates, order, i + 1)

\* ProtocolStatesWithTx::merge rejecting an equal index as well
ProtocolStatesWithTxMerge_EqualRejected(s, o, order) ==
    IF s.tx.block_hash # o.tx.block_hash
    THEN Err(s, MergeError("Can't merge ProtocolStates from different blocks",
                           <<s.tx.block_hash, o.tx.block_hash>>))
    ELSE IF s.tx.hash = o.tx.hash
    THEN Err(s, MergeError("Can't merge ProtocolStates from the same transaction",
                           <<s.tx.hash>>))
    ELSE IF s.tx.index >= o.tx.index
    THEN Err(s, MergeError("Can't merge ProtocolStates with lower transaction index",
                           <<s.tx.index, o.tx.index>>))
    ELSE LET r == MergeProtocolStates(s.protocol_states, o.protocol_states, order, 1)
         IN  [r EXCEPT !.self = [protocol_states |-> r.self, tx |-> o.tx]]

\* ProtocolStatesWithTx::merge, other.protocol_states iterated in `order`
ProtocolStatesWithTxMerge(s, o, order) ==
    IF s.tx.block_hash # o.tx.block_hash
    THEN Err(s, MergeError("Can't merge ProtocolStates from different blocks",
                           <<s.tx.block_hash, o.tx.block_hash>>))
    ELSE IF s.tx.hash = o.tx.hash
    THEN Err(s, MergeError("Can't merge ProtocolStates from the same transaction",
                           <<s.tx.hash>>))
    ELSE IF s.tx.index > o.tx.index
    THEN Err(s, MergeError("Can't merge ProtocolStates with lower transaction index",
                           <<s.tx.index, o.tx.index>>))
    ELSE LET r == MergeProtocolStates(s.protocol_states, o.protocol_states, order, 1)
         IN  [r EXCEPT !.self = [protocol_states |-> r.self, tx |-> o.tx]]

--------------------------------------------------------------------------
(* SpecMerge: one merge call on a receiver and an argument drawn from the *)
(* bounded input sets.                                                     *)

InitMerge ==
    /\ self \in [kind : {"AccountUpdateWithTx"}, val : AccountUpdateWithTxs]
                \cup [kind : {"ProtocolStatesWithTx"}, val : ProtocolStatesWithTxs]
    /\ other = Unused
    /\ prev = Unused
    /\ res = NotCalled
    /\ operands = Unused /\ lhs = Unused /\ rhs = Unused
    /\ msg = Unused /\ decoded = Unused /\ aggregated = Unused
    /\ block = Unused /\ pool_changes = NotCalled

MergeAccountUpdateWithTx ==
    /\ ~res.called
    /\ self.kind = "AccountUpdateWithTx"
    /\ \E o \in AccountUpdateWithTxs :
         LET r == AccountUpdateWithTxMerge(self.val, o)
         IN  /\ other' = o
             /\ prev' = self.val
             /\ res' = r
             /\ self' = [self EXCEPT !.val = r.self]
    /\ UNCHANGED <<assocVars, blockVars, poolVars>>

MergeProtocolStatesWithTx ==
    /\ ~res.called
    /\ self.kind = "ProtocolStatesWithTx"
    /\ \E o \in ProtocolStatesWithTxs :
         \E order \in Orders(DOMAIN o.protocol_states) :
            LET r == ProtocolStatesWithTxMerge(self.val, o, order)
            IN  /\ other' = o
                /\ prev' = self.val
                /\ res' = r
                /\ self' = [self EXCEPT !.val = r.self]
    /\ UNCHANGED <<assocVars, blockVars, poolVars>>

NextMerge == MergeAccountUpdateWithTx \/ MergeProtocolStatesWithTx

SpecMerge == InitMerge /\ [][NextMerge]_vars

--------------------------------------------------------------------------
(* Decoding and aggregation of contract changes *)

\* impl From<substreams::ChangeType> for ChangeType
ChangeTypeFrom(value) ==
    IF value = "Unspecified"
    THEN Fail(Panic("Unkown enum member encountered"))
    ELSE Return(value)

\* Transaction::try_from_message
TransactionTryFromMessage(m, block_hash) ==
    Return([hash |-> m.hash, block_hash |-> block_hash, index |-> m.index])

\* msg.slots.into_iter().map(..).collect::<HashMap>(): a later entry of a
\* slot replaces an earlier one
RECURSIVE CollectSlots(_, _)
CollectSlots(slots, i) ==
    IF i > Len(slots)
    THEN EmptyMap
    ELSE Extend([k \in {slots[i].slot} |-> slots[i].value], CollectSlots(slots, i + 1))

\* AccountUpdateWithTx::try_from_message
AccountUpdateWithTxTryFromMessage(m, tx, chain) ==
    LET change == ChangeTypeFrom(m.change)
    IN  IF ~change.ok
        THEN change
        ELSE Return([update |-> [address |-> m.address,
                                 chain |-> chain,
                                 slots |-> CollectSlots(m.slots, 1),
                                 balance |-> IF m.balance # <<>> THEN Some(m.balance[1]) ELSE None,
                                 code |-> IF m.code # <<>> THEN Some(m.code[1]) ELSE None,
                                 change |-> change.val],
                     tx |-> tx])

\* ProtocolComponent::try_from_message
ProtocolComponentTryFromMessage(m, chain) ==
    LET change == ChangeTypeFrom(m.change)
    IN  IF ~change.ok
        THEN change
        ELSE Return([id |-> m.id, chain |-> chain, change |-> change.val])

\* the loop over change.contract_changes of
\* BlockContractChanges::try_from_message: the updates pushed, in order
RECURSIVE DecodeContractChanges(_, _, _, _)
DecodeContractChanges(ccs, tx, chain, i) ==
    IF i > Len(ccs)
    THEN Return(<<>>)
    ELSE LET u == AccountUpdateWithTxTryFromMessage(ccs[i], tx, chain)
         IN  IF ~u.ok
             THEN u
             ELSE LET rest == DecodeContractChanges(ccs, tx, chain, i + 1)
                  IN  IF ~rest.ok THEN rest ELSE Return(<<u.val>> \o rest.val)

\* the loop over change.component_changes: the components pushed, in order
RECURSIVE DecodeComponentChanges(_, _, _)
DecodeComponentChanges(cs, chain, i) ==
    IF i > Len(cs)
    THEN Return(<<>>)
    ELSE LET c == ProtocolComponentTryFromMessage(cs[i], chain)
         IN  IF ~c.ok
             THEN c
             ELSE LET rest == DecodeComponentChanges(cs, chain, i + 1)
                  IN  IF ~rest.ok THEN rest ELSE Return(<<c.val>> \o rest.val)

\* the loop over msg.changes of BlockContractChanges::try_from_message
\* failing on a change without tx
RECURSIVE DecodeChanges_TxRequired(_, _, _, _)
DecodeChanges_TxRequired(changes, block_hash, chain, i) ==
    IF i > Len(changes)
    THEN Return([tx_updates |-> <<>>, protocol_components |-> <<>>])
    ELSE IF changes[i].tx = None
    THEN Fail(Empty)
    ELSE LET tx == TransactionTryFromMessage(changes[i].tx[1], block_hash)
             us == DecodeContractChanges(changes[i].contract_changes, tx.val, chain, 1)
             cs == DecodeComponentChanges(changes[i].component_changes, chain, 1)
         IN  IF ~tx.ok THEN tx
             ELSE IF ~us.ok THEN us
             ELSE IF ~cs.ok THEN cs
             ELSE LET rest == DecodeChanges_TxRequired(changes, block_hash, chain, i + 1)
                  IN  IF ~rest.ok
                      THEN rest
                      ELSE Return([tx_updates |-> us.val \o rest.val.tx_updates,
                                   protocol_components |->
                                       cs.val \o rest.val.protocol_components])

\* the loop over msg.changes of BlockContractChanges::try_from_message: the
\* updates and components pushed; a change without tx is passed over
RECURSIVE DecodeChanges(_, _, _, _)
DecodeChanges(changes, block_hash, chain, i) ==
    IF i > Len(changes)
    THEN Return([tx_updates |-> <<>>, protocol_components |-> <<>>])
    ELSE IF changes[i].tx = None
    THEN DecodeChanges(changes, block_hash, chain, i + 1)
    ELSE LET tx == TransactionTryFromMessage(changes[i].tx[1], block_hash)
             us == DecodeContractChanges(changes[i].contract_changes, tx.val, chain, 1)
             cs == DecodeComponentChanges(changes[i].component_changes, chain, 1)
         IN  IF ~tx.ok THEN tx
             ELSE IF ~us.ok THEN us
             ELSE IF ~cs.ok THEN cs
             ELSE LET rest == DecodeChanges(changes, block_hash, chain, i + 1)
                  IN  IF ~rest.ok
                      THEN rest
                      ELSE Return([tx_updates |-> us.val \o rest.val.tx_updates,
                                   protocol_components |->
                                       cs.val \o rest.val.protocol_components])

\* the permutations of 1..n
PermutationsOf(n) == {q \in [1..n -> 1..n] : \A i, j \in 1..n : q[i] = q[j] => i = j}

\* the list left in the order of the message
SortUnstableByTxIndex_Unsorted(list) == {list}

\* what sort_unstable_by_key(|update| update.tx.index) may leave: every
\* arrangement of the list that ascends by tx.index
SortUnstableByTxIndex(list) ==
    {[i \in 1..Len(list) |-> list[q[i]]] :
        q \in {p \in PermutationsOf(Len(list)) :
                  \A i, j \in 1..Len(list) :
                     i < j => list[p[i]].tx.index <= list[p[j]].tx.index}}

\* the arrangements of tx_updates the sort of
\* BlockContractChanges::try_from_message may leave for message m
SortOutcomes(m, chain) ==
    IF m.block = None
    THEN {<<>>}
    ELSE LET d == DecodeChanges(m.changes, m.block[1], chain, 1)
         IN  IF d.ok THEN SortUnstableByTxIndex(d.val.tx_updates) ELSE {<<>>}

\* BlockContractChanges::try_from_message, the sort leaving `sorted`
BlockContractChangesTryFromMessage(m, extractor, chain, sorted) ==
    IF m.block = None
    THEN Fail(Empty)
    ELSE LET d == DecodeChanges(m.changes, m.block[1], chain, 1)
         IN  IF ~d.ok
             THEN d
             ELSE Return([extractor |-> extractor,
                          chain |-> chain,
                          block |-> m.block[1],
                          tx_updates |-> sorted,
                          protocol_components |-> d.val.protocol_components,
                          tvl_changes |-> <<>>])

\* the loop of BlockContractChanges::aggregate_updates inserting every
\* update, an occupied entry included
RECURSIVE AggregateAccountUpdates_Insert(_, _, _)
AggregateAccountUpdates_Insert(tx_updates, account_updates, i) ==
    IF i > Len(tx_updates)
    THEN Return(account_updates)
    ELSE AggregateAccountUpdates_Insert(
             tx_updates,
             Extend(account_updates, [a \in {tx_updates[i].update.address} |-> tx_updates[i]]),
             i + 1)

\* the loop of BlockContractChanges::aggregate_updates from position i on;
\* account_updates is the map built so far
RECURSIVE AggregateAccountUpdates(_, _, _)
AggregateAccountUpdates(tx_updates, account_updates, i) ==
    IF i > Len(tx_updates)
    THEN Return(account_updates)
    ELSE LET update == tx_updates[i]
             address == update.update.address
         IN  IF address \in DOMAIN account_updates
             THEN LET r == AccountUpdateWithTxMerge(account_updates[address], update)
                  IN  IF r.ok
                      THEN AggregateAccountUpdates(
                               tx_updates, [account_updates EXCEPT ![address] = r.self], i + 1)
                      ELSE Fail(r.err)
             ELSE AggregateAccountUpdates(
                      tx_updates, Extend(account_updates, [a \in {address} |-> update]), i + 1)

\* BlockContractChanges::aggregate_updates passing the components as the
\* sixth argument of BlockAccountChanges::new instead of the fifth
BlockContractChangesAggregateUpdates_ComponentsAsDeleted(b) ==
    LET r == AggregateAccountUpdates(b.tx_updates, EmptyMap, 1)
    IN  IF ~r.ok
        THEN r
        ELSE Return([extractor |-> b.extractor,
                     chain |-> b.chain,
                     block |-> b.block,
                     account_updates |-> [a \in DOMAIN r.val |-> r.val[a].update],
                     new_protocol_components |-> <<>>,
                     deleted_protocol_components |-> b.protocol_components,
                     tvl_changes |-> <<>>])

\* BlockContractChanges::aggregate_updates
BlockContractChangesAggregateUpdates(b) ==
    LET r == AggregateAccountUpdates(b.tx_updates, EmptyMap, 1)
    IN  IF ~r.ok
        THEN r
        ELSE Return([extractor |-> b.extractor,
                     chain |-> b.chain,
                     block |-> b.block,
                     account_updates |-> [a \in DOMAIN r.val |-> r.val[a].update],
                     new_protocol_components |-> b.protocol_components,
                     deleted_protocol_components |-> <<>>,
                     tvl_changes |-> <<>>])

--------------------------------------------------------------------------
(* SpecContract: an upstream BlockContractChanges message is decoded and  *)
(* the decoded block aggregated.                                           *)

Extractor == "test"

InitContract ==
    /\ msg \in MsgBlockContractChanges
    /\ decoded = NotCalled
    /\ aggregated = NotCalled
    /\ block = Unused /\ pool_changes = NotCalled
    /\ self = Unused /\ other = Unused /\ prev = Unused /\ res = NotCalled
    /\ operands = Unused /\ lhs = NotCalled /\ rhs = NotCalled

DecodeContract ==
    /\ ~decoded.called
    /\ \E sorted \in SortOutcomes(msg, "Ethereum") :
          decoded' = BlockContractChangesTryFromMessage(msg, Extractor, "Ethereum", sorted)
    /\ UNCHANGED <<msg, aggregated, mergeVars, assocVars, poolVars>>

AggregateContract ==
    /\ decoded.called /\ decoded.ok
    /\ ~aggregated.called
    /\ aggregated' = BlockContractChangesAggregateUpdates(decoded.val)
    /\ UNCHANGED <<msg, decoded, mergeVars, assocVars, poolVars>>

NextContract == DecodeContract \/ AggregateContract

SpecContract == InitContract /\ [][NextContract]_vars

\* pad_and_parse_h160: left-pads to 20 bytes, fails on a longer input
PadAndParseH160(b) ==
    IF b.len > 20
    THEN Fail(DecodeError("H160: too long"))
    ELSE Return(b.value)

\* String::from_utf8
StringFromUtf8(b) ==
    IF b.utf8 THEN Return(b.value) ELSE Fail(DecodeError("invalid utf-8 sequence"))

\* u64::from_le_bytes: the number whose base-256 digits, most significant
\* first, are the bytes in reverse; f64::from_bits keeps the bit pattern
U64FromLeBytes(b) == [i \in 1..Len(b) |-> b[Len(b) + 1 - i]]

\* TvlChange::try_from_message
TvlChangeTryFromMessage(m, tx) ==
    LET token == PadAndParseH160(m.token)
        component_id == StringFromUtf8(m.component_id)
    IN  IF ~token.ok THEN token
        ELSE IF Len(m.balance) # 8
        THEN Fail(Panic("called Result::unwrap() on an Err value"))
        ELSE IF ~component_id.ok THEN component_id
        ELSE Return([token |-> token.val,
                     new_balance |-> U64FromLeBytes(m.balance),
                     modify_tx |-> tx.hash,
                     component_id |-> component_id.val])

\* the addresses occurring in a list of updates
AddressesOf(tx_updates) == {tx_updates[i].update.address : i \in 1..Len(tx_updates)}

\* positions i < j hold successive updates of one address
SuccessiveOfAddress(tx_updates, i, j) ==
    /\ i < j
    /\ tx_updates[i].update.address = tx_updates[j].update.address
    /\ \A k \in (i + 1)..(j - 1) :
          tx_updates[k].update.address # tx_updates[i].update.address

\* some address has two successive updates of the same transaction
SuccessiveSameTx(tx_updates) ==
    \E i, j \in 1..Len(tx_updates) :
       /\ SuccessiveOfAddress(tx_updates, i, j)
       /\ tx_updates[i].tx.hash = tx_updates[j].tx.hash

OnePerAddress(b, a) ==
    /\ a.ok
    /\ DOMAIN a.val.account_updates = AddressesOf(b.tx_updates)
    /\ \A ad \in DOMAIN a.val.account_updates :
          a.val.account_updates[ad].address = ad

\* C1 (as stated): every successfully decoded BlockContractChanges aggregates
\* successfully, and account_updates holds exactly one AccountUpdate per
\* distinct address of tx_updates.
C1_AggregateAlwaysOnePerAddress ==
    aggregated.called => OnePerAddress(decoded.val, aggregated)

\* C1 (amended): aggregate_updates of a successfully decoded
\* BlockContractChanges fails with the same-transaction MergeError exactly
\* when two successive updates of one address carry the same tx hash;
\* otherwise it succeeds with exactly one AccountUpdate per distinct address.
C1_AggregateOnePerAddressUnlessSameTx ==
    aggregated.called =>
        IF SuccessiveSameTx(decoded.val.tx_updates)
        THEN /\ ~aggregated.ok
             /\ aggregated.err.kind = "MergeError"
             /\ aggregated.err.text = "Can't merge AccountUpdates from the same transaction"
        ELSE OnePerAddress(decoded.val, aggregated)

\* two updates of one address from different transactions were aggregated
C1_Witness ==
    /\ aggregated.called /\ aggregated.ok
    /\ \E i, j \in 1..Len(decoded.val.tx_updates) :
          /\ SuccessiveOfAddress(decoded.val.tx_updates, i, j)
          /\ decoded.val.tx_updates[i].tx.hash # decoded.val.tx_updates[j].tx.hash
    /\ Cardinality(DOMAIN aggregated.val.account_updates) = 1

--------------------------------------------------------------------------
(* Decoding and aggregation of entity changes *)

\* the loop over msg.attributes taking Update alone for an update
RECURSIVE DecodeAttributes_UpdateOnly(_, _)
DecodeAttributes_UpdateOnly(attributes, i) ==
    IF i > Len(attributes)
    THEN Return([updates |-> EmptyMap, deletions |-> EmptyMap])
    ELSE LET attribute == attributes[i]
             change == ChangeTypeFrom(attribute.change)
             rest == DecodeAttributes_UpdateOnly(attributes, i + 1)
             entry == [n \in {attribute.name} |-> attribute.value]
         IN  IF ~change.ok THEN change
             ELSE IF ~rest.ok THEN rest
             ELSE IF change.val = "Update"
             THEN Return([updates |-> Extend(entry, rest.val.updates),
                          deletions |-> rest.val.deletions])
             ELSE Return([updates |-> rest.val.updates,
                          deletions |-> Extend(entry, rest.val.deletions)])

\* the loop over msg.attributes of ProtocolState::try_from_message from
\* position i on: the two maps built, a later insert replacing an earlier
RECURSIVE DecodeAttributes(_, _)
DecodeAttributes(attributes, i) ==
    IF i > Len(attributes)
    THEN Return([updates |-> EmptyMap, deletions |-> EmptyMap])
    ELSE LET attribute == attributes[i]
             change == ChangeTypeFrom(attribute.change)
             rest == DecodeAttributes(attributes, i + 1)
             entry == [n \in {attribute.name} |-> attribute.value]
         IN  IF ~change.ok THEN change
             ELSE IF ~rest.ok THEN rest
             ELSE IF change.val \in {"Update", "Creation"}
             THEN Return([updates |-> Extend(entry, rest.val.updates),
                          deletions |-> rest.val.deletions])
             ELSE Return([updates |-> rest.val.updates,
                          deletions |-> Extend(entry, rest.val.deletions)])

\* ProtocolState::try_from_message
ProtocolStateTryFromMessage(m, tx) ==
    LET d == DecodeAttributes(m.attributes, 1)
    IN  IF ~d.ok
        THEN d
        ELSE Return([component_id |-> m.component_id,
                     updated_attributes |-> d.val.updates,
                     deleted_attributes |-> d.val.deletions,
                     modify_tx |-> tx.hash])

\* the loop of ProtocolStatesWithTx::try_from_message merging the states of
\* one component instead of replacing the earlier by the later
RECURSIVE DecodeEntityChanges_Merged(_, _, _)
DecodeEntityChanges_Merged(msgs, tx, i) ==
    IF i > Len(msgs)
    THEN Return(EmptyMap)
    ELSE LET state == ProtocolStateTryFromMessage(msgs[i], tx)
             rest == DecodeEntityChanges_Merged(msgs, tx, i + 1)
         IN  IF ~state.ok THEN state
             ELSE IF ~rest.ok THEN rest
             ELSE IF state.val.component_id \in DOMAIN rest.val
             THEN Return([rest.val EXCEPT ![state.val.component_id] =
                             ProtocolStateMerge(state.val, @).self])
             ELSE Return(Extend([k \in {state.val.component_id} |-> state.val], rest.val))

\* the loop of ProtocolStatesWithTx::try_from_message storing every state
\* under its position in the message
RECURSIVE DecodeEntityChanges_KeyedByPosition(_, _, _)
DecodeEntityChanges_KeyedByPosition(msgs, tx, i) ==
    IF i > Len(msgs)
    THEN Return(EmptyMap)
    ELSE LET state == ProtocolStateTryFromMessage(msgs[i], tx)
             rest == DecodeEntityChanges_KeyedByPosition(msgs, tx, i + 1)
         IN  IF ~state.ok THEN state
             ELSE IF ~rest.ok THEN rest
             ELSE Return(Extend([k \in {i} |-> state.val], rest.val))

\* the loop of ProtocolStatesWithTx::try_from_message from position i on: the
\* map built, a later insert replacing an earlier
RECURSIVE DecodeEntityChanges(_, _, _)
DecodeEntityChanges(msgs, tx, i) ==
    IF i > Len(msgs)
    THEN Return(EmptyMap)
    ELSE LET state == ProtocolStateTryFromMessage(msgs[i], tx)
             rest == DecodeEntityChanges(msgs, tx, i + 1)
         IN  IF ~state.ok THEN state
             ELSE IF ~rest.ok THEN rest
             ELSE Return(Extend([k \in {state.val.component_id} |-> state.val], rest.val))

\* ProtocolStatesWithTx::try_from_message
ProtocolStatesWithTxTryFromMessage(msgs, tx) ==
    LET d == DecodeEntityChanges(msgs, tx, 1)
    IN  IF ~d.ok THEN d ELSE Return([protocol_states |-> d.val, tx |-> tx])

\* the loop over change.component_changes of
\* BlockEntityChanges::try_from_message: the map of the pools inserted
RECURSIVE DecodeNewComponents(_, _, _)
DecodeNewComponents(cs, chain, i) ==
    IF i > Len(cs)
    THEN Return(EmptyMap)
    ELSE LET pool == ProtocolComponentTryFromMessage(cs[i], chain)
             rest == DecodeNewComponents(cs, chain, i + 1)
         IN  IF ~pool.ok THEN pool
             ELSE IF ~rest.ok THEN rest
             ELSE Return(Extend([k \in {pool.val.id} |-> pool.val], rest.val))

\* the loop over msg.changes of BlockEntityChanges::try_from_message: the
\* state updates pushed and the components inserted
RECURSIVE DecodeEntityTxChanges(_, _, _, _)
DecodeEntityTxChanges(changes, block_hash, chain, i) ==
    IF i > Len(changes)
    THEN Return([state_updates |-> <<>>, new_protocol_components |-> EmptyMap])
    ELSE IF changes[i].tx = None
    THEN DecodeEntityTxChanges(changes, block_hash, chain, i + 1)
    ELSE LET tx == TransactionTryFromMessage(changes[i].tx[1], block_hash)
             tx_update == ProtocolStatesWithTxTryFromMessage(changes[i].entity_changes, tx.val)
             pools == DecodeNewComponents(changes[i].component_changes, chain, 1)
             rest == DecodeEntityTxChanges(changes, block_hash, chain, i + 1)
         IN  IF ~tx.ok THEN tx
             ELSE IF ~tx_update.ok THEN tx_update
             ELSE IF ~pools.ok THEN pools
             ELSE IF ~rest.ok THEN rest
             ELSE Return([state_updates |-> <<tx_update.val>> \o rest.val.state_updates,
                          new_protocol_components |->
                              Extend(pools.val, rest.val.new_protocol_components)])

\* the arrangements of state_updates the sort of
\* BlockEntityChanges::try_from_message may leave for message m
EntitySortOutcomes(m, chain) ==
    IF m.block = None
    THEN {<<>>}
    ELSE LET d == DecodeEntityTxChanges(m.changes, m.block[1], chain, 1)
         IN  IF d.ok THEN SortUnstableByTxIndex(d.val.state_updates) ELSE {<<>>}

\* BlockEntityChanges::try_from_message decoding the changes before it looks
\* at the block
BlockEntityChangesTryFromMessage_ChangesFirst(m, extractor, chain, sorted) ==
    LET d == DecodeEntityTxChanges(m.changes, IF m.block = None THEN 0 ELSE m.block[1],
                                   chain, 1)
    IN  IF ~d.ok
        THEN d
        ELSE IF m.block = None
        THEN Fail(Empty)
        ELSE Return([extractor |-> extractor,
                     chain |-> chain,
                     block |-> m.block[1],
                     state_updates |-> sorted,
                     new_protocol_components |-> d.val.new_protocol_components])

\* BlockEntityChanges::try_from_message, the sort leaving `sorted`
BlockEntityChangesTryFromMessage(m, extractor, chain, sorted) ==
    IF m.block = None
    THEN Fail(Empty)
    ELSE LET d == DecodeEntityTxChanges(m.changes, m.block[1], chain, 1)
         IN  IF ~d.ok
             THEN d
             ELSE Return([extractor |-> extractor,
                          chain |-> chain,
                          block |-> m.block[1],
                          state_updates |-> sorted,
                          new_protocol_components |-> d.val.new_protocol_components])

\* the keys of S in the order they have in ord
SubOrder(ord, S) == SelectSeq(ord, LAMBDA k : k \in S)

\* ProtocolStatesWithTx::default()
DefaultProtocolStatesWithTx == [protocol_states |-> EmptyMap, tx |-> DefaultTransaction]

\* the try_fold of BlockEntityChanges::aggregate_updates from position i on;
\* maps are iterated in the order ord
RECURSIVE FoldStateUpdates(_, _, _, _)
FoldStateUpdates(state_updates, acc_state, ord, i) ==
    IF i > Len(state_updates)
    THEN Ok(acc_state)
    ELSE LET new_state == state_updates[i]
             r == ProtocolStatesWithTxMerge(acc_state, new_state,
                                            SubOrder(ord, DOMAIN new_state.protocol_states))
         IN  IF r.ok THEN FoldStateUpdates(state_updates, r.self, ord, i + 1) ELSE r

\* BlockEntityChanges::aggregate_updates: the fold is unwrapped
BlockEntityChangesAggregateUpdates(b, ord) ==
    LET f == FoldStateUpdates(b.state_updates, DefaultProtocolStatesWithTx, ord, 1)
    IN  IF ~f.ok
        THEN Fail(PanicWith(f.err))
        ELSE Return([extractor |-> b.extractor,
                     chain |-> b.chain,
                     block |-> b.block,
                     state_updates |-> f.self.protocol_states,
                     new_protocol_components |-> b.new_protocol_components])

--------------------------------------------------------------------------
(* SpecEntity: an upstream BlockEntityChanges message is decoded and the   *)
(* decoded block aggregated.                                               *)

InitEntity ==
    /\ msg \in MsgBlockEntityChangesMessages
    /\ decoded = NotCalled
    /\ aggregated = NotCalled
    /\ block = Unused /\ pool_changes = NotCalled
    /\ self = Unused /\ other = Unused /\ prev = Unused /\ res = NotCalled
    /\ operands = Unused /\ lhs = NotCalled /\ rhs = NotCalled

DecodeEntity ==
    /\ ~decoded.called
    /\ \E sorted \in EntitySortOutcomes(msg, "Ethereum") :
          decoded' = BlockEntityChangesTryFromMessage(msg, Extractor, "Ethereum", sorted)
    /\ UNCHANGED <<msg, aggregated, mergeVars, assocVars, poolVars>>

AggregateEntity ==
    /\ decoded.called /\ decoded.ok
    /\ ~aggregated.called
    /\ \E ord \in Orders(ComponentIds) :
          aggregated' = BlockEntityChangesAggregateUpdates(decoded.val, ord)
    /\ UNCHANGED <<msg, decoded, mergeVars, assocVars, poolVars>>

NextEntity == DecodeEntity \/ AggregateEntity

SpecEntity == InitEntity /\ [][NextEntity]_vars

\* the transactions of a list of state updates have pairwise distinct hashes
DistinctTxHashes(state_updates) ==
    \A i, j \in 1..Len(state_updates) :
       state_updates[i].tx.hash = state_updates[j].tx.hash => i = j

\* the component ids occurring in a list of state updates
ComponentIdsOf(state_updates) ==
    UNION {DOMAIN state_updates[i].protocol_states : i \in 1..Len(state_updates)}

\* C2 (as stated): a successfully decoded BlockEntityChanges whose
\* transactions have pairwise distinct hashes aggregates to Ok, with exactly
\* one ProtocolState per component id of any per-transaction update and the
\* new_protocol_components of the input.
C2_EntityAggregateOk ==
    (aggregated.called /\ DistinctTxHashes(decoded.val.state_updates)) =>
        /\ aggregated.ok
        /\ DOMAIN aggregated.val.state_updates = ComponentIdsOf(decoded.val.state_updates)
        /\ aggregated.val.new_protocol_components = decoded.val.new_protocol_components

\* C14 (as stated): when a merge of the fold of
\* BlockEntityChanges::aggregate_updates fails, aggregate_updates returns
\* that MergeError to the caller as Err; it does not panic.
C14_FoldErrorReturned ==
    aggregated.called =>
        \A ord \in Orders(ComponentIds) :
           LET f == FoldStateUpdates(decoded.val.state_updates,
                                     DefaultProtocolStatesWithTx, ord, 1)
           IN  ~f.ok => (~aggregated.ok /\ aggregated.err = f.err)

\* the entries of msg.changes that carry a tx and an EntityChanges of
\* component c
Touching(c) ==
    {i \in 1..Len(msg.changes) :
        /\ msg.changes[i].tx # None
        /\ \E j \in 1..Len(msg.changes[i].entity_changes) :
              msg.changes[i].entity_changes[j].component_id = c}

\* the positions of decoded.state_updates whose map holds component c
TouchingUpdates(c) ==
    {i \in 1..Len(decoded.val.state_updates) :
        c \in DOMAIN decoded.val.state_updates[i].protocol_states}

--------------------------------------------------------------------------
(* SpecAggregate: aggregate_updates is called on a BlockContractChanges    *)
(* built directly, as test_block_state_changes_aggregate builds one.       *)

MaxUpdates == 3              \* length of tx_updates
AggSlotKeys == {0, 1}
AggIndices == 0..(MaxIndex + 1)
AggChangeTypes == {"Creation", "Update"}

\* what update number i of tx_updates is: the slots it writes, whether it
\* sets balance and code, its change type, its address and the index of its
\* transaction. It writes the value i wherever it writes and comes from
\* transaction number i, so that the writer of a value can be told.
AggShapes ==
    [address : Addresses, keys : SUBSET AggSlotKeys, sets : BOOLEAN,
     change : AggChangeTypes, index : AggIndices]

AggUpdateWithTx(shape, i) ==
    [update |-> [address |-> shape.address,
                 chain |-> "Ethereum",
                 slots |-> [k \in shape.keys |-> i],
                 balance |-> IF shape.sets THEN Some(i) ELSE None,
                 code |-> IF shape.sets THEN Some(i) ELSE None,
                 change |-> shape.change],
     tx |-> [hash |-> i, block_hash |-> 1, index |-> shape.index]]

\* BlockContractChanges { extractor, chain, block, tx_updates, protocol_components, tvl_changes }
AggBlock(shapes) ==
    [extractor |-> Extractor,
     chain |-> "Ethereum",
     block |-> 1,
     tx_updates |-> [i \in 1..Len(shapes) |-> AggUpdateWithTx(shapes[i], i)],
     protocol_components |-> <<>>,
     tvl_changes |-> <<>>]

InitAggregate ==
    /\ \E shapes \in SeqsUpTo(AggShapes, MaxUpdates) : self = AggBlock(shapes)
    /\ aggregated = NotCalled
    /\ other = Unused /\ prev = Unused /\ res = NotCalled
    /\ operands = Unused /\ lhs = NotCalled /\ rhs = NotCalled
    /\ msg = Unused /\ decoded = NotCalled
    /\ block = Unused /\ pool_changes = NotCalled

AggregateUpdates ==
    /\ ~aggregated.called
    /\ aggregated' = BlockContractChangesAggregateUpdates(self)
    /\ UNCHANGED <<self, other, prev, res, assocVars, msg, decoded, poolVars>>

NextAggregate == AggregateUpdates

SpecAggregate == InitAggregate /\ [][NextAggregate]_vars

\* the updates of tx_updates for one address, in the order of tx_updates
UpdatesOfAddress(address) ==
    SelectSeq(self.tx_updates, LAMBDA u : u.update.address = address)

\* the last position of a non-empty set of positions
Last(positions) == CHOOSE i \in positions : \A j \in positions : j <= i

\* no update at a position of the set has a higher tx.index than that at i
HighestIndex(ups, positions, i) ==
    \A j \in positions : ups[j].tx.index <= ups[i].tx.index

\* the positions of ups whose update sets the balance (the code)
SettingBalance(ups) == {i \in 1..Len(ups) : ups[i].update.balance # None}
SettingCode(ups) == {i \in 1..Len(ups) : ups[i].update.code # None}

\* C25: after a successful aggregate_updates the map holds one AccountUpdate,
\* without transaction, per address of tx_updates; its balance (its code)
\* is that of the highest-index update of the address that set one, None if
\* none did; its slot keys are the union of the keys of the address's updates,
\* each with the value of the highest-index update holding the key; its
\* change is that of the lowest-index update. Among updates of equal index
\* the later one in tx_updates counts as the higher.
C25_AggregateFieldRule ==
    (aggregated.called /\ aggregated.ok) =>
        LET out == aggregated.val.account_updates
        IN  /\ DOMAIN out = {self.tx_updates[i].update.address : i \in 1..Len(self.tx_updates)}
            /\ \A a \in DOMAIN out :
                  LET ups == UpdatesOfAddress(a)
                      all == 1..Len(ups)
                      bal == SettingBalance(ups)
                      cod == SettingCode(ups)
                  IN  /\ DOMAIN out[a]
                           = {"address", "chain", "slots", "balance", "code", "change"}
                      /\ out[a].address = a
                      /\ IF bal = {}
                         THEN out[a].balance = None
                         ELSE /\ out[a].balance = ups[Last(bal)].update.balance
                              /\ HighestIndex(ups, bal, Last(bal))
                      /\ IF cod = {}
                         THEN out[a].code = None
                         ELSE /\ out[a].code = ups[Last(cod)].update.code
                              /\ HighestIndex(ups, cod, Last(cod))
                      /\ DOMAIN out[a].slots
                            = UNION {DOMAIN ups[i].update.slots : i \in all}
                      /\ \A k \in DOMAIN out[a].slots :
                            LET holding == {i \in all : k \in DOMAIN ups[i].update.slots}
                            IN  /\ out[a].slots[k] = ups[Last(holding)].update.slots[k]
                                /\ HighestIndex(ups, holding, Last(holding))
                      /\ out[a].change = ups[1].update.change
                      /\ \A j \in all : ups[1].tx.index <= ups[j].tx.index

\* three updates of one address with indices 0, 1, 2 were aggregated: the
\* first two set the balance and the last did not, the first wrote slot 0,
\* the second slots 0 and 1, the last slot 1, and the change types differ
C25_Witness ==
    /\ aggregated.called /\ aggregated.ok
    /\ Len(self.tx_updates) = 3
    /\ \A i \in 1..3 : self.tx_updates[i].update.address = 1
                       /\ self.tx_updates[i].tx.index = i - 1
    /\ self.tx_updates[1].update.change = "Creation"
    /\ self.tx_updates[2].update.change = "Update"
    /\ aggregated.val.account_updates[1].balance = Some(2)
    /\ aggregated.val.account_updates[1].slots = (0 :> 2 @@ 1 :> 3)
    /\ aggregated.val.account_updates[1].change = "Creation"

--------------------------------------------------------------------------
(* SpecFrame: BlockContractChanges::try_from_message is called with an     *)
(* extractor name and a chain of the caller's choice, and the decoded      *)
(* block is aggregated. msg holds the message and the two arguments.       *)

ExtractorNames == {Extractor, "ambient"}

\* messages of up to MaxChanges changes, each for a transaction of index 0
\* with at most one contract change and up to two new components
FrameMessages ==
    [block : Opt(BlockHashes),
     changes : SeqsUpTo(
         [tx : Opt([hash : TxHashes, index : {0}]),
          contract_changes :
              SeqsUpTo({c \in MsgContractChanges : c.address = 1 /\ c.balance # None}, 1),
          component_changes :
              SeqsUpTo([id : ComponentIds, change : {"Creation"}], 2)], MaxChanges)]

\* impl NormalisedMessage for BlockAccountChanges: source()
Source(changes) == [chain |-> changes.chain, name |-> changes.extractor]

InitFrame ==
    /\ msg \in [val : FrameMessages, extractor : ExtractorNames, chain : Chains]
    /\ decoded = NotCalled
    /\ aggregated = NotCalled
    /\ block = Unused /\ pool_changes = NotCalled
    /\ self = Unused /\ other = Unused /\ prev = Unused /\ res = NotCalled
    /\ operands = Unused /\ lhs = NotCalled /\ rhs = NotCalled

DecodeFrame ==
    /\ ~decoded.called
    /\ \E sorted \in SortOutcomes(msg.val, msg.chain) :
          decoded' = BlockContractChangesTryFromMessage(
                         msg.val, msg.extractor, msg.chain, sorted)
    /\ UNCHANGED <<msg, aggregated, mergeVars, assocVars, poolVars>>

AggregateFrame == AggregateContract

NextFrame == DecodeFrame \/ AggregateFrame

SpecFrame == InitFrame /\ [][NextFrame]_vars

\* C26: the BlockAccountChanges returned by aggregate_updates carries the
\* block, chain and extractor of its input, so that source() gives the chain
\* and the extractor name of the decode call; its new_protocol_components
\* are the input's protocol_components in their order; its
\* deleted_protocol_components and tvl_changes are empty.
C26_AggregateFrame ==
    (aggregated.called /\ aggregated.ok) =>
        /\ aggregated.val.block = decoded.val.block
        /\ aggregated.val.chain = decoded.val.chain
        /\ aggregated.val.extractor = decoded.val.extractor
        /\ Source(aggregated.val) = [chain |-> msg.chain, name |-> msg.extractor]
        /\ aggregated.val.new_protocol_components = decoded.val.protocol_components
        /\ aggregated.val.deleted_protocol_components = <<>>
        /\ aggregated.val.tvl_changes = <<>>

\* a block decoded for Starknet under another extractor name, with the
\* components 2 and 1 in that order and an account update, was aggregated
C26_Witness ==
    /\ aggregated.called /\ aggregated.ok
    /\ msg.chain = "Starknet" /\ msg.extractor = "ambient"
    /\ Len(decoded.val.protocol_components) = 2
    /\ decoded.val.protocol_components[1].id = 2
    /\ decoded.val.protocol_components[2].id = 1
    /\ DOMAIN aggregated.val.account_updates # {}

--------------------------------------------------------------------------
(* Accounts: tycho-core's Account and AccountUpdate, and the conversion of *)
(* the extractor's AccountUpdateWithTx into the extractor's Account.       *)

\* U256::default(), Bytes::default() (the empty byte string)
ZeroBalance == 0
EmptyCode == 0
EmptyStoreVal == 0

\* keccak256: a hash of its input, taken to be free of collisions
Keccak256(bytes) == <<"keccak256", bytes>>

\* format!("{:#020x}", address)
HexTitle(address) == <<"0x", address>>

\* Option::unwrap_or_default
UnwrapOr(option, default) == IF option = None THEN default ELSE option[1]

\* tycho_core::models::contract::AccountUpdate
CoreChains == {"Ethereum", "Starknet"}
CoreAccountUpdates ==
    [chain : CoreChains, address : Addresses, slots : Maps(SlotKeys, Opt(Vals)),
     balance : Opt(Vals), code : Opt(Codes), change : ChangeTypes]

\* tycho_core::models::blockchain::Transaction, by its hash
CoreTransactions == [hash : {1, 2}]

\* AccountUpdate::into_account
IntoAccount(update, tx) ==
    [chain |-> update.chain,
     address |-> update.address,
     title |-> HexTitle(update.address),
     slots |-> [k \in DOMAIN update.slots |-> UnwrapOr(update.slots[k], EmptyStoreVal)],
     native_balance |-> UnwrapOr(update.balance, ZeroBalance),
     code |-> UnwrapOr(update.code, EmptyCode),
     code_hash |-> IF update.code # None THEN Keccak256(update.code[1])
                                        ELSE Keccak256(EmptyCode),
     balance_modify_tx |-> tx.hash,
     code_modify_tx |-> tx.hash,
     creation_tx |-> Some(tx.hash)]

\* the conversion recording a creation transaction for a Creation only
AccountFrom_CreationOnly(value) ==
    [chain |-> value.update.chain,
     address |-> value.update.address,
     title |-> HexTitle(value.update.address),
     slots |-> value.update.slots,
     balance |-> UnwrapOr(value.update.balance, ZeroBalance),
     code |-> UnwrapOr(value.update.code, EmptyCode),
     code_hash |-> IF value.update.code # None THEN Keccak256(value.update.code[1])
                                              ELSE Keccak256(EmptyCode),
     balance_modify_tx |-> value.tx.hash,
     code_modify_tx |-> value.tx.hash,
     creation_tx |-> IF value.update.change = "Creation" THEN Some(value.tx.hash) ELSE None]

\* impl From<&AccountUpdateWithTx> for Account (the warning logged when
\* change is not Creation changes no state)
AccountFrom(value) ==
    [chain |-> value.update.chain,
     address |-> value.update.address,
     title |-> HexTitle(value.update.address),
     slots |-> value.update.slots,
     balance |-> UnwrapOr(value.update.balance, ZeroBalance),
     code |-> UnwrapOr(value.update.code, EmptyCode),
     code_hash |-> IF value.update.code # None THEN Keccak256(value.update.code[1])
                                              ELSE Keccak256(EmptyCode),
     balance_modify_tx |-> value.tx.hash,
     code_modify_tx |-> value.tx.hash,
     creation_tx |-> Some(value.tx.hash)]

\* DeltaError::IdMismatch(format!("{:?}", self_id), format!("{:?}", other_id))
IdMismatch(self_id, other_id) ==
    [kind |-> "IdMismatch", text |-> "", args |-> <<self_id, other_id>>]

\* Account::apply_contract_delta comparing the addresses only
ApplyContractDelta_AddressOnly(s, delta) ==
    IF s.address # delta.address
    THEN Err(s, IdMismatch(<<s.chain, s.address>>, <<delta.chain, delta.address>>))
    ELSE Ok([s EXCEPT
                !.native_balance = UnwrapOr(delta.balance, @),
                !.code = UnwrapOr(delta.code, @),
                !.slots = Extend(@, [k \in DOMAIN delta.slots |->
                                        UnwrapOr(delta.slots[k], EmptyStoreVal)])])

\* Account::apply_contract_delta
ApplyContractDelta(s, delta) ==
    IF <<s.chain, s.address>> # <<delta.chain, delta.address>>
    THEN Err(s, IdMismatch(<<s.chain, s.address>>, <<delta.chain, delta.address>>))
    ELSE Ok([s EXCEPT
                !.native_balance = UnwrapOr(delta.balance, @),
                !.code = UnwrapOr(delta.code, @),
                !.slots = Extend(@, [k \in DOMAIN delta.slots |->
                                        UnwrapOr(delta.slots[k], EmptyStoreVal)])])

--------------------------------------------------------------------------
(* SpecFrom: an account update is converted into an account together with *)
(* its transaction, by the extractor's From impl or by tycho-core's        *)
(* into_account. operands holds the update and the transaction.            *)

InitFrom ==
    /\ operands \in [kind : {"From"}, update : AccountUpdates, tx : Transactions]
                    \cup [kind : {"into_account"}, update : CoreAccountUpdates,
                          tx : CoreTransactions]
    /\ res = NotCalled
    /\ self = Unused /\ other = Unused /\ prev = Unused
    /\ lhs = NotCalled /\ rhs = NotCalled
    /\ msg = Unused /\ decoded = NotCalled /\ aggregated = NotCalled
    /\ block = Unused /\ pool_changes = NotCalled

FromUpdateWithTx ==
    /\ ~res.called
    /\ operands.kind = "From"
    /\ res' = Return(AccountFrom([update |-> operands.update, tx |-> operands.tx]))
    /\ UNCHANGED <<self, other, prev, assocVars, blockVars, poolVars>>

CallIntoAccount ==
    /\ ~res.called
    /\ operands.kind = "into_account"
    /\ res' = Return(IntoAccount(operands.update, operands.tx))
    /\ UNCHANGED <<self, other, prev, assocVars, blockVars, poolVars>>

NextFrom == FromUpdateWithTx \/ CallIntoAccount

SpecFrom == InitFrom /\ [][NextFrom]_vars

\* C30: the conversion of an update with its transaction always yields an
\* account, whatever the change type: code_hash is keccak256 of the code if
\* the update sets one and keccak256 of the empty code otherwise, balance
\* and code are those of the update or zero / empty, the slots are those of
\* the update, and creation_tx, balance_modify_tx and code_modify_tx are the
\* hash of the transaction.
C30_AccountFromUpdate ==
    res.called =>
        LET update == operands.update
            account == res.val
            balance == IF operands.kind = "From" THEN account.balance
                                                 ELSE account.native_balance
        IN  /\ res.ok
            /\ account.chain = update.chain /\ account.address = update.address
            /\ account.code_hash = Keccak256(account.code)
            /\ update.code # None => account.code = update.code[1]
            /\ update.code = None => account.code = EmptyCode
            /\ update.balance # None => balance = update.balance[1]
            /\ update.balance = None => balance = ZeroBalance
            /\ DOMAIN account.slots = DOMAIN update.slots
            /\ \A k \in DOMAIN update.slots :
                  IF operands.kind = "From"
                  THEN account.slots[k] = update.slots[k]
                  ELSE /\ update.slots[k] # None => account.slots[k] = update.slots[k][1]
                       /\ update.slots[k] = None => account.slots[k] = EmptyStoreVal
            /\ account.creation_tx = Some(operands.tx.hash)
            /\ account.balance_modify_tx = operands.tx.hash
            /\ account.code_modify_tx = operands.tx.hash

\* an update of change type Update with a slot and neither balance nor code
\* was converted by the From impl, as in test_account_from_update_w_tx
C30_Witness ==
    /\ res.called /\ operands.kind = "From"
    /\ operands.update.change = "Update"
    /\ operands.update.balance = None /\ operands.update.code = None
    /\ operands.update.slots # EmptyMap
    /\ res.val.code_hash = Keccak256(EmptyCode)
    /\ res.val.creation_tx = Some(operands.tx.hash)

--------------------------------------------------------------------------
(* SpecApply: an Account built by into_account receives contract deltas.   *)
(* self is the account, other the last delta, prev the account before it.  *)

\* the deltas applied: updates writing MaxVal where they write
CoreDeltas ==
    {u \in CoreAccountUpdates :
        /\ u.change = "Update"
        /\ u.balance \in Opt({MaxVal})
        /\ \A k \in DOMAIN u.slots : u.slots[k] \in Opt({MaxVal})}

InitApply ==
    /\ \E update \in CoreDeltas, tx \in CoreTransactions :
          /\ self = IntoAccount(update, tx)
          /\ prev = IntoAccount(update, tx)
    /\ other = Unused
    /\ res = NotCalled
    /\ operands = Unused /\ lhs = NotCalled /\ rhs = NotCalled
    /\ msg = Unused /\ decoded = NotCalled /\ aggregated = NotCalled
    /\ block = Unused /\ pool_changes = NotCalled

ApplyDelta ==
    /\ \E delta \in CoreDeltas :
          /\ other' = delta
          /\ prev' = self
          /\ res' = [ApplyContractDelta(self, delta) EXCEPT !.self = <<>>]
          /\ self' = ApplyContractDelta(self, delta).self
    /\ UNCHANGED <<assocVars, blockVars, poolVars>>

NextApply == ApplyDelta

SpecApply == InitApply /\ [][NextApply]_vars

\* C27 (as stated): an Account built by into_account has
\* code_hash = keccak256(code), and so has an Account after
\* apply_contract_delta was given a delta that sets the code.
C27_CodeHashFollowsCode ==
    /\ ~res.called => self.code_hash = Keccak256(self.code)
    /\ (res.called /\ res.ok /\ other.code # None) =>
           self.code_hash = Keccak256(self.code)

\* C28: apply_contract_delta returns DeltaError::IdMismatch when the delta's
\* (chain, address) differs from the account's, and leaves the account as
\* it was.
C28_IdMismatchLeavesAccount ==
    (res.called /\ <<prev.chain, prev.address>> # <<other.chain, other.address>>) =>
        /\ ~res.ok
        /\ res.err = IdMismatch(<<prev.chain, prev.address>>,
                                <<other.chain, other.address>>)
        /\ self = prev

\* a delta of the account's address on another chain, setting balance, code
\* and a slot, was refused
C28_Witness ==
    /\ res.called /\ ~res.ok
    /\ other.address = prev.address /\ other.chain # prev.chain
    /\ other.balance # None /\ other.code # None /\ other.slots # EmptyMap
    /\ prev.native_balance # other.balance[1]

--------------------------------------------------------------------------
(* SpecTokens: TokenPreProcessor::get_tokens is called on a list of token  *)
(* addresses. operands holds, for each address, what the three remote      *)
(* calls made for it return; res holds the returned tokens.                *)

MaxTokens == 2      \* length of addresses

\* a U256 by the part that fits a u64 (lo) and the part above it (hi)
U256s == [hi : {0, 1}, lo : {0, 1}]
U256Zero == [hi |-> 0, lo |-> 0]

\* U256::as_u64: panics when the value does not fit
AsU64(v) ==
    IF v.hi # 0 THEN Fail(Panic("Integer overflow when casting to u64")) ELSE Return(v.lo)

\* what contract.method("symbol", ()).call() returns: a string, here a
\* sequence of characters, "NUL" being the character '\0'
SymbolResults == {[ok |-> FALSE, val |-> <<>>],
                  [ok |-> TRUE, val |-> <<"T">>],
                  [ok |-> TRUE, val |-> <<"T", "NUL">>]}

\* what contract.method("decimals", ()).call() returns
DecimalsResults == {[ok |-> FALSE, val |-> 0], [ok |-> TRUE, val |-> 6]}

\* what trace_call.detect(address) returns: Err, or Ok((quality, gas, tax))
DetectResults ==
    {[ok |-> FALSE, quality |-> "Bad", gas |-> None, tax |-> None]}
    \cup [ok : {TRUE}, quality : {"Good", "Bad"},
          gas : Opt({[hi |-> 0, lo |-> 1], [hi |-> 1, lo |-> 0]}),
          tax : Opt(U256s)]

TokenCalls ==
    [address : {1}, symbol : SymbolResults, decimals : DecimalsResults,
     detect : DetectResults]

\* symbol.replace('\0', "")
RemoveNul(symbol) == SelectSeq(symbol, LAMBDA c : c # "NUL")

\* address.to_string()
AddressToString(address) == <<"0x", address>>

\* the quality of one token: 100 when both calls succeeded, else 0; then 50
\* if it is 100 and tax is Some value above zero. The outcome of detect
\* enters through tax only: on Err, tax is None.
QualityOf(call) ==
    LET tax == IF call.detect.ok THEN call.detect.tax ELSE None
        quality == IF call.symbol.ok /\ call.decimals.ok THEN 100 ELSE 0
    IN  IF quality = 100 /\ tax # None /\ tax[1] # U256Zero THEN 50 ELSE quality

\* the ERC20Token pushed for one address
TokenInfo(call) ==
    LET gas == IF call.detect.ok THEN call.detect.gas ELSE None
        tax == IF call.detect.ok THEN call.detect.tax ELSE None
        tax64 == AsU64(UnwrapOr(tax, U256Zero))
        gas64 == IF gas = None THEN Return(<<>>) ELSE AsU64(gas[1])
    IN  IF ~tax64.ok THEN tax64
        ELSE IF ~gas64.ok THEN gas64
        ELSE Return([address |-> call.address,
                     symbol |-> IF call.symbol.ok THEN RemoveNul(call.symbol.val)
                                                  ELSE AddressToString(call.address),
                     decimals |-> IF call.decimals.ok THEN call.decimals.val ELSE 18,
                     tax |-> tax64.val,
                     gas |-> IF gas = None THEN <<>> ELSE <<Some(gas64.val)>>,
                     chain |-> "Ethereum",
                     quality |-> QualityOf(call)])

\* the loop over addresses from position i on
RECURSIVE GetTokensFrom(_, _, _)
GetTokensFrom(calls, i, tokens_info) ==
    IF i > Len(calls)
    THEN Return(tokens_info)
    ELSE LET t == TokenInfo(calls[i])
         IN  IF ~t.ok THEN t ELSE GetTokensFrom(calls, i + 1, Append(tokens_info, t.val))

\* TokenPreProcessor::get_tokens
GetTokens(calls) == GetTokensFrom(calls, 1, <<>>)

InitTokens ==
    /\ operands \in SeqsUpTo(TokenCalls, MaxTokens)
    /\ res = NotCalled
    /\ self = Unused /\ other = Unused /\ prev = Unused
    /\ lhs = NotCalled /\ rhs = NotCalled
    /\ msg = Unused /\ decoded = NotCalled /\ aggregated = NotCalled
    /\ block = Unused /\ pool_changes = NotCalled

RunGetTokens ==
    /\ ~res.called
    /\ res' = GetTokens(operands)
    /\ UNCHANGED <<self, other, prev, assocVars, blockVars, poolVars>>

NextTokens == RunGetTokens

SpecTokens == InitTokens /\ [][NextTokens]_vars

\* C29 (as stated): every token returned by get_tokens has quality 100 when
\* symbol and decimals both succeeded, the detection succeeded and the tax
\* is zero, 50 when both succeeded and the tax is above zero, and 0 when
\* symbol or decimals failed or the detection failed.
C29_QualityByOutcome ==
    (res.called /\ res.ok) =>
        \A i \in 1..Len(res.val) :
           LET call == operands[i]
               both == call.symbol.ok /\ call.decimals.ok
               taxed == call.detect.ok /\ call.detect.tax # None
                        /\ call.detect.tax[1] # U256Zero
           IN  /\ res.val[i].quality \in {0, 50, 100}
               /\ (~both \/ ~call.detect.ok) => res.val[i].quality = 0
               /\ (both /\ taxed) => res.val[i].quality = 50
               /\ res.val[i].quality = 100 => (both /\ call.detect.ok /\ ~taxed)

--------------------------------------------------------------------------
(* SpecBlock: a block message of either kind is decoded by its decoder and *)
(* the decoded block is aggregated.                                        *)

\* the change entries of the message are substreams::TransactionContractChanges
HoldsContractChanges(m) ==
    \A i \in 1..Len(m.changes) : "contract_changes" \in DOMAIN m.changes[i]

\* the change entries of the message are substreams::TransactionEntityChanges
HoldsEntityChanges(m) ==
    \A i \in 1..Len(m.changes) : "entity_changes" \in DOMAIN m.changes[i]

InitBlock ==
    /\ msg \in MsgBlockContractChanges \cup MsgBlockEntityChangesMessages
    /\ decoded = NotCalled
    /\ aggregated = NotCalled
    /\ block = Unused /\ pool_changes = NotCalled
    /\ self = Unused /\ other = Unused /\ prev = Unused /\ res = NotCalled
    /\ operands = Unused /\ lhs = NotCalled /\ rhs = NotCalled

DecodeContractBlock == HoldsContractChanges(msg) /\ DecodeContract

AggregateContractBlock ==
    /\ decoded.called /\ decoded.ok
    /\ "tx_updates" \in DOMAIN decoded.val
    /\ AggregateContract

DecodeEntityBlock == HoldsEntityChanges(msg) /\ DecodeEntity

AggregateEntityBlock ==
    /\ decoded.called /\ decoded.ok
    /\ "state_updates" \in DOMAIN decoded.val
    /\ AggregateEntity

NextBlock ==
    \/ DecodeContractBlock
    \/ AggregateContractBlock
    \/ DecodeEntityBlock
    \/ AggregateEntityBlock

SpecBlock == InitBlock /\ [][NextBlock]_vars

\* tx_updates of a BlockContractChanges, state_updates of a BlockEntityChanges
UpdatesOf(b) == IF "tx_updates" \in DOMAIN b THEN b.tx_updates ELSE b.state_updates

SortedByTxIndex(list) ==
    \A i, j \in 1..Len(list) : i < j => list[i].tx.index <= list[j].tx.index

\* the transaction indices of the message's changes, in message order,
\* change entries without a transaction left out
MsgIndices(m) ==
    LET with_tx == SelectSeq(m.changes, LAMBDA c : c.tx # None)
    IN  [i \in 1..Len(with_tx) |-> with_tx[i].tx[1].index]

LowerIndexTexts ==
    {"Can't merge AccountUpdates with lower transaction index",
     "Can't merge ProtocolStates with lower transaction index"}

\* C24: a block decoded by BlockContractChanges::try_from_message or by
\* BlockEntityChanges::try_from_message has its updates in ascending order
\* of tx.index, whatever the order in the message, and aggregate_updates on
\* it never meets the "lower transaction index" MergeError.
C24_DecodedUpdatesSorted ==
    /\ (decoded.called /\ decoded.ok) => SortedByTxIndex(UpdatesOf(decoded.val))
    /\ aggregated.called => aggregated.err.text \notin LowerIndexTexts

\* a message whose changes come with descending transaction indices was
\* decoded into two updates and aggregated
C24_Witness ==
    /\ MsgIndices(msg) = <<1, 0>>
    /\ decoded.called /\ decoded.ok
    /\ Len(UpdatesOf(decoded.val)) = 2
    /\ aggregated.called /\ aggregated.ok

\* what decoding message m and aggregating the decoded block can give, over
\* the arrangements the unstable sort may leave
\* every key of the map is the component_id of the state stored under it
KeyedByComponentId(protocol_states) ==
    \A k \in DOMAIN protocol_states : protocol_states[k].component_id = k

\* C38: every ProtocolStatesWithTx that the decoder builds, and the map the
\* fold of successful merges of aggregate_updates leaves, stores each
\* ProtocolState under its component_id; every key of the account_updates of
\* the BlockAccountChanges that aggregate_updates returns is the address of
\* the AccountUpdate stored under it.
C38_KeysAreIdentities ==
    /\ (decoded.called /\ decoded.ok /\ "state_updates" \in DOMAIN decoded.val) =>
          \A i \in 1..Len(decoded.val.state_updates) :
             KeyedByComponentId(decoded.val.state_updates[i].protocol_states)
    /\ (aggregated.called /\ aggregated.ok) =>
          IF "account_updates" \in DOMAIN aggregated.val
          THEN \A a \in DOMAIN aggregated.val.account_updates :
                  aggregated.val.account_updates[a].address = a
          ELSE KeyedByComponentId(aggregated.val.state_updates)

\* two decoded ProtocolStatesWithTx, the first of two components, were
\* merged into a map of two components
C38_Witness ==
    /\ aggregated.called /\ aggregated.ok
    /\ "state_updates" \in DOMAIN decoded.val
    /\ Len(decoded.val.state_updates) = 2
    /\ DOMAIN decoded.val.state_updates[1].protocol_states = ComponentIds
    /\ DOMAIN decoded.val.state_updates[2].protocol_states # {}
    /\ DOMAIN aggregated.val.state_updates = ComponentIds

\* the entries of msg.changes that carry a tx
WithTx == {i \in 1..Len(msg.changes) : msg.changes[i].tx # None}

\* the transaction of entry i of msg.changes
TxOf(i) ==
    [hash |-> msg.changes[i].tx[1].hash,
     block_hash |-> msg.block[1],
     index |-> msg.changes[i].tx[1].index]

\* the component changes of the entries that carry a tx
ComponentChangesWithTx ==
    {p \in WithTx \X (1..1) : p[2] <= Len(msg.changes[p[1]].component_changes)}

\* the contract changes of the entries that carry a tx
ContractChangesWithTx ==
    {p \in WithTx \X (1..MaxContractChanges) :
        p[2] <= Len(msg.changes[p[1]].contract_changes)}

\* the update decoded from contract change p[2] of entry p[1]
UpdateOfChange(p) ==
    AccountUpdateWithTxTryFromMessage(msg.changes[p[1]].contract_changes[p[2]],
                                      TxOf(p[1]), "Ethereum").val

\* the ProtocolStatesWithTx decoded from entry i
StatesOfEntry(i) ==
    ProtocolStatesWithTxTryFromMessage(msg.changes[i].entity_changes, TxOf(i)).val

\* the number of positions of list that hold x
Occurrences(list, x) == Cardinality({k \in 1..Len(list) : list[k] = x})

\* C39: BlockContractChanges::try_from_message and
\* BlockEntityChanges::try_from_message succeed on a message with a block
\* whatever entries lack a tx; tx_updates holds exactly one
\* AccountUpdateWithTx per ContractChange of the entries that carry a tx,
\* attached to the transaction of its entry, state_updates exactly one
\* ProtocolStatesWithTx per entry that carries a tx, and the components are
\* those of the entries that carry a tx: an entry without tx contributes
\* nothing.
C39_EntriesWithoutTxSkipped ==
    (decoded.called /\ msg.block # None) =>
        /\ decoded.ok
        /\ IF "tx_updates" \in DOMAIN decoded.val
           THEN /\ Len(decoded.val.tx_updates) = Cardinality(ContractChangesWithTx)
                /\ \A p \in ContractChangesWithTx :
                      Occurrences(decoded.val.tx_updates, UpdateOfChange(p)) =
                          Cardinality({q \in ContractChangesWithTx :
                                          UpdateOfChange(q) = UpdateOfChange(p)})
                /\ Len(decoded.val.protocol_components) =
                      Cardinality(ComponentChangesWithTx)
           ELSE /\ Len(decoded.val.state_updates) = Cardinality(WithTx)
                /\ \A i \in WithTx :
                      Occurrences(decoded.val.state_updates, StatesOfEntry(i)) =
                          Cardinality({j \in WithTx : StatesOfEntry(j) = StatesOfEntry(i)})
                /\ (DOMAIN decoded.val.new_protocol_components # {}) <=>
                      (ComponentChangesWithTx # {})

\* the first entry has contract changes and a component but no tx, the
\* second has a tx and two contract changes
C39_Witness ==
    /\ decoded.called /\ decoded.ok
    /\ "tx_updates" \in DOMAIN decoded.val
    /\ Len(msg.changes) = 2
    /\ msg.changes[1].tx = None
    /\ msg.changes[1].contract_changes # <<>>
    /\ msg.changes[1].component_changes # <<>>
    /\ msg.changes[2].tx # None
    /\ Len(msg.changes[2].contract_changes) = 2
    /\ Len(decoded.val.tx_updates) = 2
    /\ decoded.val.protocol_components = <<>>

ContractOutcomes(m) ==
    {BlockContractChangesAggregateUpdates(
         BlockContractChangesTryFromMessage(m, Extractor, "Ethereum", sorted).val) :
        sorted \in SortOutcomes(m, "Ethereum")}

\* the same for a BlockEntityChanges message, over the arrangements of the
\* sort and the iteration orders of the maps
EntityOutcomes(m) ==
    {BlockEntityChangesAggregateUpdates(
         BlockEntityChangesTryFromMessage(m, Extractor, "Ethereum", sorted).val, ord) :
        sorted \in EntitySortOutcomes(m, "Ethereum"), ord \in Orders(ComponentIds)}

\* C32 (as stated): the outcome of decoding and aggregating a block message
\* is the same for every arrangement the unstable sort may leave among
\* updates of equal tx.index and for every map iteration order.
C32_OutcomeIndependentOfOrder ==
    aggregated.called =>
        IF "tx_updates" \in DOMAIN decoded.val
        THEN ContractOutcomes(msg) = {aggregated}
        ELSE EntityOutcomes(msg) = {aggregated}

--------------------------------------------------------------------------
(* SpecDecode: one upstream message of any kind is given to its decoder.   *)
(* msg holds the message, its kind and the transaction it is decoded for.  *)

DecodeTransactions == {t \in Transactions : t.block_hash = 1 /\ t.index = 0}

InitDecode ==
    /\ msg \in [kind : {"ContractChange"}, val : AnyMsgContractChanges,
                 tx : DecodeTransactions]
          \cup [kind : {"EntityChanges"}, val : AnyMsgEntityChanges,
                 tx : DecodeTransactions]
          \cup [kind : {"ProtocolComponent"}, val : AnyMsgProtocolComponents,
                 tx : {DefaultTransaction}]
          \cup [kind : {"BalanceChange"}, val : MsgBalanceChanges,
                 tx : DecodeTransactions]
          \cup [kind : {"BlockContractChanges"}, val : OneTxMsgBlockContractChanges,
                 tx : {DefaultTransaction}]
          \cup [kind : {"BlockEntityChanges"}, val : OneTxMsgBlockEntityChanges,
                 tx : {DefaultTransaction}]
    /\ decoded = NotCalled
    /\ aggregated = NotCalled
    /\ block = Unused /\ pool_changes = NotCalled
    /\ self = Unused /\ other = Unused /\ prev = Unused /\ res = NotCalled
    /\ operands = Unused /\ lhs = NotCalled /\ rhs = NotCalled

DecodeContractChange ==
    /\ ~decoded.called /\ msg.kind = "ContractChange"
    /\ decoded' = AccountUpdateWithTxTryFromMessage(msg.val, msg.tx, "Ethereum")
    /\ UNCHANGED <<msg, aggregated, mergeVars, assocVars, poolVars>>

DecodeEntityChange ==
    /\ ~decoded.called /\ msg.kind = "EntityChanges"
    /\ decoded' = ProtocolStateTryFromMessage(msg.val, msg.tx)
    /\ UNCHANGED <<msg, aggregated, mergeVars, assocVars, poolVars>>

DecodeProtocolComponent ==
    /\ ~decoded.called /\ msg.kind = "ProtocolComponent"
    /\ decoded' = ProtocolComponentTryFromMessage(msg.val, "Ethereum")
    /\ UNCHANGED <<msg, aggregated, mergeVars, assocVars, poolVars>>

DecodeBalanceChange ==
    /\ ~decoded.called /\ msg.kind = "BalanceChange"
    /\ decoded' = TvlChangeTryFromMessage(msg.val, msg.tx)
    /\ UNCHANGED <<msg, aggregated, mergeVars, assocVars, poolVars>>

DecodeBlockContractChanges ==
    /\ ~decoded.called /\ msg.kind = "BlockContractChanges"
    /\ \E sorted \in SortOutcomes(msg.val, "Ethereum") :
          decoded' = BlockContractChangesTryFromMessage(msg.val, Extractor, "Ethereum", sorted)
    /\ UNCHANGED <<msg, aggregated, mergeVars, assocVars, poolVars>>

DecodeBlockEntityChanges ==
    /\ ~decoded.called /\ msg.kind = "BlockEntityChanges"
    /\ \E sorted \in EntitySortOutcomes(msg.val, "Ethereum") :
          decoded' = BlockEntityChangesTryFromMessage(msg.val, Extractor, "Ethereum", sorted)
    /\ UNCHANGED <<msg, aggregated, mergeVars, assocVars, poolVars>>

NextDecode ==
    \/ DecodeContractChange
    \/ DecodeEntityChange
    \/ DecodeProtocolComponent
    \/ DecodeBalanceChange
    \/ DecodeBlockContractChanges
    \/ DecodeBlockEntityChanges

SpecDecode == InitDecode /\ [][NextDecode]_vars

\* some element of the list has change Unspecified
AnyUnspecified(list) == \E i \in 1..Len(list) : list[i].change = "Unspecified"

\* the decoder of the message meets a change field that is Unspecified
MeetsUnspecified(m) ==
    CASE m.kind \in {"ContractChange", "ProtocolComponent"} ->
             m.val.change = "Unspecified"
      [] m.kind = "EntityChanges" -> AnyUnspecified(m.val.attributes)
      [] m.kind = "BlockContractChanges" ->
             /\ m.val.block # None
             /\ \E i \in 1..Len(m.val.changes) :
                   /\ m.val.changes[i].tx # None
                   /\ \/ AnyUnspecified(m.val.changes[i].contract_changes)
                      \/ AnyUnspecified(m.val.changes[i].component_changes)
      [] m.kind = "BlockEntityChanges" ->
             /\ m.val.block # None
             /\ \E i \in 1..Len(m.val.changes) :
                   /\ m.val.changes[i].tx # None
                   /\ \/ \E j \in 1..Len(m.val.changes[i].entity_changes) :
                            AnyUnspecified(m.val.changes[i].entity_changes[j].attributes)
                      \/ AnyUnspecified(m.val.changes[i].component_changes)
      [] OTHER -> FALSE

\* C15 (as stated): decoding a message whose change field is Unspecified
\* returns Err(DecodeError); it neither aborts nor yields a decoded entity.
C15_UnspecifiedIsDecodeError ==
    (decoded.called /\ MeetsUnspecified(msg)) =>
        ~decoded.ok /\ decoded.err.kind = "DecodeError"

\* C16 (as stated): TvlChange::try_from_message returns Err(DecodeError) for
\* a balance that is not 8 bytes long, and accepts a balance of 8 bytes.
C16_BalanceLengthIsDecodeError ==
    (decoded.called /\ msg.kind = "BalanceChange") =>
        IF Len(msg.val.balance) # 8
        THEN ~decoded.ok /\ decoded.err.kind = "DecodeError"
        ELSE (msg.val.token.len <= 20 /\ msg.val.component_id.utf8) => decoded.ok

\* C17: the block decoders return Err(Empty) exactly when the message has
\* no block, whatever its changes hold.
C17_EmptyIffNoBlock ==
    (decoded.called /\ msg.kind \in {"BlockContractChanges", "BlockEntityChanges"}) =>
        ((~decoded.ok /\ decoded.err = Empty) <=> msg.val.block = None)

\* a block message without block whose change holds an Unspecified change
\* type was answered with Empty
C17_Witness ==
    /\ decoded.called /\ ~decoded.ok /\ decoded.err = Empty
    /\ msg.kind = "BlockEntityChanges"
    /\ msg.val.block = None
    /\ Len(msg.val.changes) = 1
    /\ msg.val.changes[1].tx # None
    /\ AnyUnspecified(msg.val.changes[1].component_changes)

\* the positions of the attributes of the message whose change is among cs
AttributesWith(attributes, cs) == {i \in 1..Len(attributes) : attributes[i].change \in cs}

\* the map the attributes at the given positions make: a name has the value
\* of the last of them that carries it
LastValues(attributes, positions) ==
    [n \in {attributes[i].name : i \in positions} |->
        LET of_name == {i \in positions : attributes[i].name = n}
        IN  attributes[CHOOSE i \in of_name : \A j \in of_name : j <= i].value]

\* C31: ProtocolState::try_from_message succeeds on every message without an
\* Unspecified change; the names of updated_attributes are those of the
\* attributes with change Update or Creation, the names of deleted_attributes
\* those with change Deletion, each with the value the message gives it last;
\* component_id is the message's and modify_tx the transaction's hash.
C31_AttributesClassified ==
    (decoded.called /\ msg.kind = "EntityChanges") =>
        /\ decoded.ok <=> ~AnyUnspecified(msg.val.attributes)
        /\ decoded.ok =>
              /\ decoded.val.updated_attributes
                    = LastValues(msg.val.attributes,
                                 AttributesWith(msg.val.attributes, {"Update", "Creation"}))
              /\ decoded.val.deleted_attributes
                    = LastValues(msg.val.attributes,
                                 AttributesWith(msg.val.attributes, {"Deletion"}))
              /\ decoded.val.component_id = msg.val.component_id
              /\ decoded.val.modify_tx = msg.tx.hash

\* a message creating one attribute and deleting another was decoded for a
\* transaction whose hash is not the default
C31_Witness ==
    /\ decoded.called /\ decoded.ok /\ msg.kind = "EntityChanges"
    /\ msg.tx.hash = 1
    /\ Len(msg.val.attributes) = 2
    /\ msg.val.attributes[1].change = "Creation"
    /\ msg.val.attributes[2].change = "Deletion"
    /\ msg.val.attributes[1].name # msg.val.attributes[2].name

--------------------------------------------------------------------------
(* SpecTxStates: the entity changes of one transaction are given to        *)
(* ProtocolStatesWithTx::try_from_message.                                 *)

InitTxStates ==
    /\ msg \in [kind : {"TransactionEntityChanges"},
                 val : SeqsUpTo(MsgEntityChanges, MaxEntityChanges),
                 tx : DecodeTransactions]
    /\ decoded = NotCalled
    /\ aggregated = NotCalled
    /\ block = Unused /\ pool_changes = NotCalled
    /\ self = Unused /\ other = Unused /\ prev = Unused /\ res = NotCalled
    /\ operands = Unused /\ lhs = NotCalled /\ rhs = NotCalled

DecodeTransactionEntityChanges ==
    /\ ~decoded.called
    /\ decoded' = ProtocolStatesWithTxTryFromMessage(msg.val, msg.tx)
    /\ UNCHANGED <<msg, aggregated, mergeVars, assocVars, poolVars>>

NextTxStates == DecodeTransactionEntityChanges

SpecTxStates == InitTxStates /\ [][NextTxStates]_vars

\* the positions of msg.val whose EntityChanges is of component c
ChangesOf(c) == {i \in 1..Len(msg.val) : msg.val[i].component_id = c}

\* C40: ProtocolStatesWithTx::try_from_message keeps exactly one
\* ProtocolState per component_id of the transaction's entity changes, which
\* is the state decoded from the last EntityChanges of that component alone:
\* a later one replaces an earlier one and the attributes are not merged.
C40_LastEntityChangesWins ==
    decoded.called =>
        /\ decoded.ok
        /\ decoded.val.tx = msg.tx
        /\ DOMAIN decoded.val.protocol_states = {c \in ComponentIds : ChangesOf(c) # {}}
        /\ \A c \in DOMAIN decoded.val.protocol_states :
              LET last == CHOOSE i \in ChangesOf(c) : \A j \in ChangesOf(c) : j <= i
              IN  decoded.val.protocol_states[c] =
                      ProtocolStateTryFromMessage(msg.val[last], msg.tx).val

\* two EntityChanges of one component: the attribute the first one updates
\* and the second one does not name is not in the state
C40_Witness ==
    /\ decoded.called /\ decoded.ok
    /\ Len(msg.val) = 2
    /\ msg.val[1].component_id = msg.val[2].component_id
    /\ \E a \in 1..Len(msg.val[1].attributes) :
          /\ msg.val[1].attributes[a].change = "Update"
          /\ \A b \in 1..Len(msg.val[2].attributes) :
                msg.val[2].attributes[b].name # msg.val[1].attributes[a].name
          /\ LET state == decoded.val.protocol_states[msg.val[1].component_id]
             IN  /\ msg.val[1].attributes[a].name \notin DOMAIN state.updated_attributes
                 /\ state.updated_attributes # EmptyMap

--------------------------------------------------------------------------
(* SpecState: a ProtocolState decoded from an EntityChanges message has     *)
(* other decoded states merged into it, one after another, any number of    *)
(* times.                                                                   *)

\* the ProtocolStates ProtocolState::try_from_message decodes
DecodedProtocolStates ==
    {ProtocolStateTryFromMessage(m, [hash |-> h, block_hash |-> 0, index |-> 0]).val :
        m \in MsgEntityChanges, h \in TxHashes}

InitState ==
    /\ self \in DecodedProtocolStates
    /\ other = Unused /\ prev = Unused /\ res = NotCalled
    /\ operands = Unused
    /\ lhs = NotCalled /\ rhs = NotCalled
    /\ msg = Unused /\ decoded = NotCalled /\ aggregated = NotCalled
    /\ block = Unused /\ pool_changes = NotCalled

MergeProtocolState ==
    /\ \E o \in DecodedProtocolStates :
          /\ other' = o
          /\ prev' = self
          /\ res' = ProtocolStateMerge(self, o)
          /\ self' = res'.self
    /\ UNCHANGED <<assocVars, blockVars, poolVars>>

NextState == MergeProtocolState

SpecState == InitState /\ [][NextState]_vars

\* the key sets of updated_attributes and deleted_attributes are disjoint
Disjoint(state) ==
    (DOMAIN state.updated_attributes) \cap (DOMAIN state.deleted_attributes) = {}

\* C3 (as stated): after any number of ProtocolState::merge calls the key
\* sets of updated_attributes and deleted_attributes of the state are
\* disjoint.
C3_DisjointAfterMerges ==
    res.called => Disjoint(self)

\* map m holds exactly the entries of `base` whose key is not in `removed`,
\* overridden by the entries of `over`
IsOverridden(m, base, removed, over) ==
    /\ DOMAIN m = ((DOMAIN base) \ removed) \cup DOMAIN over
    /\ \A k \in DOMAIN m : m[k] = IF k \in DOMAIN over THEN over[k] ELSE base[k]

\* C11: a successful ProtocolState::merge leaves updated_attributes = (the
\* updated_attributes of self minus the keys other deletes) overridden by
\* those of other, deleted_attributes = (the deleted_attributes of self minus
\* the keys other updates) overridden by those of other, and modify_tx =
\* other.modify_tx.
C11_StateMergeResult ==
    (res.called /\ res.ok) =>
        /\ IsOverridden(self.updated_attributes, prev.updated_attributes,
                        DOMAIN other.deleted_attributes, other.updated_attributes)
        /\ IsOverridden(self.deleted_attributes, prev.deleted_attributes,
                        DOMAIN other.updated_attributes, other.deleted_attributes)
        /\ self.modify_tx = other.modify_tx
        /\ self.component_id = prev.component_id

\* a merge removed an updated attribute that other deletes and replaced the
\* value of another
C11_Witness ==
    /\ res.called /\ res.ok
    /\ \E k \in DOMAIN prev.updated_attributes :
          k \in DOMAIN other.deleted_attributes /\ k \notin DOMAIN self.updated_attributes
    /\ \E k \in DOMAIN prev.updated_attributes :
          /\ k \in DOMAIN other.updated_attributes
          /\ prev.updated_attributes[k] # other.updated_attributes[k]
    /\ prev.modify_tx # other.modify_tx

\* C12: ProtocolState::merge returns MergeError when the component ids
\* differ, and then leaves self unchanged.
C12_StateMergeWrongId ==
    (res.called /\ prev.component_id # other.component_id) =>
        /\ ~res.ok
        /\ res.err.kind = "MergeError"
        /\ res.err.text = "Can't merge ProtocolStates from differing identities"
        /\ res.err.args = <<prev.component_id, other.component_id>>
        /\ self = prev

\* a state with attributes rejected a state of another component and
\* another transaction
C12_Witness ==
    /\ res.called /\ ~res.ok
    /\ prev.component_id # other.component_id
    /\ prev.modify_tx # other.modify_tx
    /\ prev.updated_attributes # EmptyMap
    /\ other.deleted_attributes # EmptyMap

\* C36: when self and other have the same component_id and each has
\* disjoint updated_attributes and deleted_attributes key sets,
\* ProtocolState::merge succeeds, leaves the key sets of self disjoint and
\* every key of other in the set (updated or deleted) in which other had it.
C36_MergeKeepsDisjoint ==
    (/\ res.called
     /\ prev.component_id = other.component_id
     /\ Disjoint(prev) /\ Disjoint(other)) =>
        /\ res.ok
        /\ Disjoint(self)
        /\ DOMAIN other.updated_attributes \subseteq DOMAIN self.updated_attributes
        /\ DOMAIN other.deleted_attributes \subseteq DOMAIN self.deleted_attributes

\* other deletes an attribute self had updated and updates one self had
\* deleted
C36_Witness ==
    /\ res.called /\ res.ok
    /\ Disjoint(prev) /\ Disjoint(other)
    /\ \E k \in DOMAIN prev.updated_attributes : k \in DOMAIN other.deleted_attributes
    /\ \E k \in DOMAIN prev.deleted_attributes : k \in DOMAIN other.updated_attributes
    /\ Disjoint(self)

\* C37 (as stated): every ProtocolState that ProtocolState::try_from_message
\* produces has disjoint updated_attributes and deleted_attributes key sets,
\* also when the message lists an attribute name more than once with
\* different change types.
C37_DecodedStateDisjoint ==
    (decoded.called /\ msg.kind = "EntityChanges" /\ decoded.ok) =>
        Disjoint(decoded.val)

--------------------------------------------------------------------------
(* SpecAccount: AccountUpdate::merge called directly, without transactions, *)
(* any number of times.                                                     *)

InitAccount ==
    /\ self \in AccountUpdates
    /\ other = Unused /\ prev = Unused /\ res = NotCalled
    /\ operands = Unused /\ lhs = NotCalled /\ rhs = NotCalled
    /\ msg = Unused /\ decoded = NotCalled /\ aggregated = NotCalled
    /\ block = Unused /\ pool_changes = NotCalled

MergeAccountUpdate ==
    /\ \E o \in AccountUpdates :
          /\ other' = o
          /\ prev' = self
          /\ res' = AccountUpdateMerge(self, o)
          /\ self' = res'.self
    /\ UNCHANGED <<assocVars, blockVars, poolVars>>

NextAccount == MergeAccountUpdate

SpecAccount == InitAccount /\ [][NextAccount]_vars

\* C13: AccountUpdate::merge enforces only the same-address rule: with
\* different addresses it returns MergeError and leaves self unchanged; with
\* the same address it succeeds whatever the chain, change type and contents.
C13_AccountMergeOnlyAddress ==
    res.called =>
        IF prev.address # other.address
        THEN /\ ~res.ok
             /\ res.err.kind = "MergeError"
             /\ res.err.text = "Can't merge AccountUpdates from differing identities"
             /\ res.err.args = <<prev.address, other.address>>
             /\ self = prev
        ELSE res.ok

\* updates of one address but of different chains and change types merged
C13_Witness ==
    /\ res.called /\ res.ok
    /\ prev.address = other.address
    /\ prev.chain # other.chain
    /\ prev.change # other.change
    /\ prev.balance # other.balance

--------------------------------------------------------------------------
(* map_pool_changes: the substreams handler that turns the calls of an     *)
(* Ethereum block into pool creations and balance deltas.                  *)

MaxTxs == 2      \* transactions of a block
MaxCalls == 2    \* calls of a transaction

\* the (address, selector) pairs of the match of map_pool_changes
TvlEntryPoints ==
    {<<"AMBIENT_CONTRACT", "SWAP_FN_SIG">>,
     <<"AMBIENT_HOTPROXY_CONTRACT", "USER_CMD_HOTPROXY_FN_SIG">>,
     <<"AMBIENT_MICROPATHS_CONTRACT", "SWEEP_SWAP_FN_SIG">>,
     <<"AMBIENT_WARMPATH_CONTRACT", "USER_CMD_WARMPATH_FN_SIG">>,
     <<"AMBIENT_MICROPATHS_CONTRACT", "MINT_RANGE_FN_SIG">>,
     <<"AMBIENT_MICROPATHS_CONTRACT", "MINT_AMBIENT_FN_SIG">>,
     <<"AMBIENT_MICROPATHS_CONTRACT", "BURN_RANGE_FN_SIG">>,
     <<"AMBIENT_MICROPATHS_CONTRACT", "BURN_AMBIENT_FN_SIG">>,
     <<"AMBIENT_KNOCKOUT_CONTRACT", "USER_CMD_KNOCKOUT_FN_SIG">>}

\* the entry of the match whose decoder returns an Option
OptionalTvlEntryPoints == {<<"AMBIENT_WARMPATH_CONTRACT", "USER_CMD_WARMPATH_FN_SIG">>}

\* What a call is, apart from its index: the contract called, the first four
\* bytes of its input ("SHORT": the input has fewer than 4 bytes) and what the
\* decoder it is routed to returns for it (Some tuple or component, None, Err).
CallShapes ==
    [state_reverted : BOOLEAN,
     address : {"OTHER_CONTRACT"}, selector : {"SHORT", "SWAP_FN_SIG"}, result : {"None"}]
    \cup [state_reverted : BOOLEAN,
          address : {"AMBIENT_CONTRACT"}, selector : {"USER_CMD_FN_SIG"},
          result : {"Some", "None", "Err"}]
    \cup [state_reverted : BOOLEAN,
          address : {"AMBIENT_CONTRACT"}, selector : {"SWAP_FN_SIG"},
          result : {"Some", "Err"}]
    \cup [state_reverted : BOOLEAN,
          address : {"AMBIENT_WARMPATH_CONTRACT"}, selector : {"USER_CMD_WARMPATH_FN_SIG"},
          result : {"Some", "None", "Err"}]

\* eth::v2::TransactionTrace.calls: call number i of a transaction has
\* index i, counted from 1 in every transaction
IndexedCalls(shapes) ==
    [i \in 1..Len(shapes) |->
        [index |-> i,
         state_reverted |-> shapes[i].state_reverted,
         address |-> shapes[i].address,
         selector |-> shapes[i].selector,
         result |-> shapes[i].result]]

\* eth::v2::TransactionTrace
TransactionTraces == {[calls |-> IndexedCalls(sh)] : sh \in SeqsUpTo(CallShapes, MaxCalls)}

\* eth::v2::Block.transactions()
Blocks == SeqsUpTo(TransactionTraces, MaxTxs)

\* what the decoders return in Some: (pool_hash, base_flow, quote_flow)
PoolHash == 1
BaseFlow == 1
QuoteFlow == 2

\* utils::from_u256_to_vec: the 32 bytes of the value, least significant first
FromU256ToVec(v) == [i \in 1..32 |-> IF i = 1 THEN v % 256 ELSE 0]

SubstreamsError == [kind |-> "substreams::errors::Error", text |-> "", args |-> <<>>]

\* block_tx.calls.iter().filter(|call| !call.state_reverted) keeping every call
BlockCalls_Unfiltered(calls) == calls

\* block_tx.calls.iter().filter(|call| !call.state_reverted)
BlockCalls(calls) == SelectSeq(calls, LAMBDA call : ~call.state_reverted)

\* the BalanceDelta built for a call, numbered by the deltas already emitted
BalanceDeltaOf_Counted(call, balance_deltas) ==
    [pool_hash |-> PoolHash,
     base_token_delta |-> FromU256ToVec(BaseFlow),
     quote_token_delta |-> FromU256ToVec(QuoteFlow),
     ordinal |-> Len(balance_deltas) + 1]

\* the BalanceDelta built for a call whose decoder returned Some
BalanceDeltaOf(call, balance_deltas) ==
    [pool_hash |-> PoolHash,
     base_token_delta |-> FromU256ToVec(BaseFlow),
     quote_token_delta |-> FromU256ToVec(QuoteFlow),
     ordinal |-> call.index]

\* the pool-creation block read as if a call to any contract with the
\* USER_CMD selector were a pool initialisation
PoolInit_AnyContract(call) ==
    IF call.selector = "USER_CMD_FN_SIG" \/ call.selector = "USER_CMD_WARMPATH_FN_SIG"
    THEN call.result
    ELSE "None"

\* if call.address == AMBIENT_CONTRACT && selector == USER_CMD_FN_SIG
\* { decode_pool_init(call)? }: what the block yields for the call, "None"
\* when decode_pool_init is not invoked
PoolInit(call) ==
    IF call.address = "AMBIENT_CONTRACT" /\ call.selector = "USER_CMD_FN_SIG"
    THEN call.result
    ELSE "None"

\* the match read as if it dispatched on the selector alone
TvlMatch_SelectorOnly(call) ==
    IF \E pair \in TvlEntryPoints : pair[2] = call.selector
    THEN IF call.result = "Err" THEN "Err" ELSE "Some"
    ELSE "None"

\* match (address, selector) { ... }: "Err" when the decoder of the arm
\* fails, else the value of result: the decoder's own Option for the
\* warm-path arm, Some for the other arms, None for the default arm
TvlMatch(call) ==
    IF <<call.address, call.selector>> \in TvlEntryPoints
    THEN IF call.result = "Err"
         THEN "Err"
         ELSE IF <<call.address, call.selector>> \in OptionalTvlEntryPoints
              THEN call.result
              ELSE "Some"
    ELSE "None"

\* the loop over block_calls from position i on; acc holds
\* protocol_components and balance_deltas as built so far
RECURSIVE MapCalls(_, _, _)
MapCalls(block_calls, i, acc) ==
    IF i > Len(block_calls)
    THEN Return(acc)
    ELSE LET call == block_calls[i]
             with_pool ==
                 IF PoolInit(call) = "Some"
                 THEN [acc EXCEPT !.protocol_components = Append(@, [id |-> PoolHash])]
                 ELSE acc
         IN  IF call.selector = "SHORT"
             THEN MapCalls(block_calls, i + 1, acc)
             ELSE IF PoolInit(call) = "Err"
             THEN Fail(SubstreamsError)
             ELSE IF TvlMatch(call) = "Err"
             THEN Fail(SubstreamsError)
             ELSE IF TvlMatch(call) = "Some"
             THEN MapCalls(block_calls, i + 1,
                           [with_pool EXCEPT !.balance_deltas =
                               Append(@, BalanceDeltaOf(call, @))])
             ELSE MapCalls(block_calls, i + 1, with_pool)

\* the loop over block.transactions() going on to the next transaction when
\* a decoder fails
RECURSIVE MapTransactions_SkipFailed(_, _, _)
MapTransactions_SkipFailed(transactions, t, acc) ==
    IF t > Len(transactions)
    THEN Return(acc)
    ELSE LET r == MapCalls(BlockCalls(transactions[t].calls), 1, acc)
         IN  MapTransactions_SkipFailed(transactions, t + 1, IF r.ok THEN r.val ELSE acc)

\* the loop over block.transactions() from position t on
RECURSIVE MapTransactions(_, _, _)
MapTransactions(transactions, t, acc) ==
    IF t > Len(transactions)
    THEN Return(acc)
    ELSE LET r == MapCalls(BlockCalls(transactions[t].calls), 1, acc)
         IN  IF ~r.ok THEN r ELSE MapTransactions(transactions, t + 1, r.val)

\* map_pool_changes (the storage_changes it collects are never read)
MapPoolChanges(b) ==
    MapTransactions(b, 1, [protocol_components |-> <<>>, balance_deltas |-> <<>>])

--------------------------------------------------------------------------
(* SpecPool: map_pool_changes is run on an Ethereum block.                 *)

InitPool ==
    /\ block \in Blocks
    /\ pool_changes = NotCalled
    /\ self = Unused /\ other = Unused /\ prev = Unused /\ res = NotCalled
    /\ operands = Unused /\ lhs = NotCalled /\ rhs = NotCalled
    /\ msg = Unused /\ decoded = NotCalled /\ aggregated = NotCalled

RunMapPoolChanges ==
    /\ ~pool_changes.called
    /\ pool_changes' = MapPoolChanges(block)
    /\ UNCHANGED <<block, mergeVars, assocVars, blockVars>>

NextPool == RunMapPoolChanges

SpecPool == InitPool /\ [][NextPool]_vars

\* the calls of the block in traversal order: transactions in block order,
\* the calls of each in listed order
RECURSIVE FlattenCalls(_, _)
FlattenCalls(transactions, t) ==
    IF t > Len(transactions)
    THEN <<>>
    ELSE transactions[t].calls \o FlattenCalls(transactions, t + 1)

\* the call is routed to a decoder
Routed(call) ==
    \/ call.address = "AMBIENT_CONTRACT" /\ call.selector = "USER_CMD_FN_SIG"
    \/ <<call.address, call.selector>> \in TvlEntryPoints

\* a non-reverted call for which a TVL decoder returns Some
Emits(call) ==
    /\ ~call.state_reverted
    /\ <<call.address, call.selector>> \in TvlEntryPoints
    /\ call.result = "Some"

\* a non-reverted call for which decode_pool_init returns Some
Creates(call) ==
    /\ ~call.state_reverted
    /\ call.address = "AMBIENT_CONTRACT" /\ call.selector = "USER_CMD_FN_SIG"
    /\ call.result = "Some"

\* a non-reverted call whose decoder fails
Breaks(call) == ~call.state_reverted /\ Routed(call) /\ call.result = "Err"

Ordinals(balance_deltas) == [i \in 1..Len(balance_deltas) |-> balance_deltas[i].ordinal]

\* C18 (as stated): the ordinals of the balance deltas emitted for a block
\* are non-decreasing in emission order.
C18_OrdinalsNonDecreasing ==
    (pool_changes.called /\ pool_changes.ok) =>
        \A i, j \in 1..Len(pool_changes.val.balance_deltas) :
           i < j => pool_changes.val.balance_deltas[i].ordinal
                        <= pool_changes.val.balance_deltas[j].ordinal

\* C19: reverted calls are set aside before any decoding: the block fails
\* only on a non-reverted call whose decoder fails, and only non-reverted
\* calls contribute balance deltas and protocol components.
C19_RevertedCallsIgnored ==
    pool_changes.called =>
        LET calls == FlattenCalls(block, 1)
        IN  /\ pool_changes.ok <=> ~(\E i \in 1..Len(calls) : Breaks(calls[i]))
            /\ pool_changes.ok =>
                  /\ Len(pool_changes.val.balance_deltas) = Len(SelectSeq(calls, Emits))
                  /\ Len(pool_changes.val.protocol_components)
                         = Len(SelectSeq(calls, Creates))

\* a block with a reverted call whose decoder would fail and a reverted call
\* whose decoder would return Some was mapped, and another call gave a delta
C19_Witness ==
    /\ pool_changes.called /\ pool_changes.ok
    /\ Len(pool_changes.val.balance_deltas) = 1
    /\ LET calls == FlattenCalls(block, 1)
       IN  /\ \E i \in 1..Len(calls) :
                 calls[i].state_reverted /\ Routed(calls[i]) /\ calls[i].result = "Err"
           /\ \E i \in 1..Len(calls) :
                 calls[i].state_reverted /\ Routed(calls[i]) /\ calls[i].result = "Some"

\* C20: the ordinals of the balance deltas are the indices of the calls that
\* emit one, in traversal order: one delta per emitting call, none else.
C20_OrdinalIsCallIndex ==
    (pool_changes.called /\ pool_changes.ok) =>
        LET emitting == SelectSeq(FlattenCalls(block, 1), Emits)
        IN  Ordinals(pool_changes.val.balance_deltas)
               = [i \in 1..Len(emitting) |-> emitting[i].index]

\* two transactions each emitted a delta from their second call, after a
\* first call that emitted none
C20_Witness ==
    /\ pool_changes.called /\ pool_changes.ok
    /\ Len(block) = 2
    /\ Ordinals(pool_changes.val.balance_deltas) = <<2, 2>>

\* the non-reverted calls of the block in traversal order
LiveCalls == SelectSeq(FlattenCalls(block, 1), LAMBDA call : ~call.state_reverted)

\* C21: when a decoder (pool-init or TVL) fails on a non-reverted call, the
\* whole block is an error and carries no BlockPoolChanges, whatever the
\* calls before it decoded to.
C21_DecoderFailureAbortsBlock ==
    (pool_changes.called /\ \E i \in 1..Len(LiveCalls) : Breaks(LiveCalls[i])) =>
        /\ ~pool_changes.ok
        /\ pool_changes.err = SubstreamsError
        /\ pool_changes.val = <<>>

\* a block failed on a decoder error although an earlier call of it had
\* decoded to a balance delta and another to a pool creation
C21_Witness ==
    /\ pool_changes.called /\ ~pool_changes.ok
    /\ \E i, j, k \in 1..Len(LiveCalls) :
          /\ i < k /\ j < k
          /\ Emits(LiveCalls[i]) /\ Creates(LiveCalls[j]) /\ Breaks(LiveCalls[k])

\* the (address, selector) pair of the call is an arm of the match
IsTvlEntryPoint(call) == <<call.address, call.selector>> \in TvlEntryPoints

\* C22: every balance delta stems from a non-reverted call whose (address,
\* selector) pair is a TVL entry point and whose decoder returned Some, one
\* delta per such call; a block whose non-reverted calls are all too short
\* or match no entry succeeds and produces nothing.
C22_DeltaOnlyForRoutedSome ==
    pool_changes.called =>
        /\ (\A i \in 1..Len(LiveCalls) :
               LiveCalls[i].selector = "SHORT" \/ ~Routed(LiveCalls[i]))
           => /\ pool_changes.ok
              /\ pool_changes.val = [protocol_components |-> <<>>, balance_deltas |-> <<>>]
        /\ pool_changes.ok =>
              LET routed == SelectSeq(LiveCalls,
                                LAMBDA call : /\ call.selector # "SHORT"
                                              /\ IsTvlEntryPoint(call)
                                              /\ call.result = "Some")
              IN  /\ Len(pool_changes.val.balance_deltas) = Len(routed)
                  /\ \A k \in 1..Len(routed) :
                        pool_changes.val.balance_deltas[k]
                            = [pool_hash |-> PoolHash,
                               base_token_delta |-> FromU256ToVec(BaseFlow),
                               quote_token_delta |-> FromU256ToVec(QuoteFlow),
                               ordinal |-> routed[k].index]

\* a block was mapped that holds a call with a short input, a call to
\* another contract with a TVL selector, a warm-path call decoded to None
\* and a call that gave the one delta of the block
C22_Witness ==
    /\ pool_changes.called /\ pool_changes.ok
    /\ Len(pool_changes.val.balance_deltas) = 1
    /\ \E i \in 1..Len(LiveCalls) : LiveCalls[i].selector = "SHORT"
    /\ \E i \in 1..Len(LiveCalls) :
          /\ LiveCalls[i].address = "OTHER_CONTRACT"
          /\ LiveCalls[i].selector = "SWAP_FN_SIG"
    /\ \E i \in 1..Len(LiveCalls) :
          /\ LiveCalls[i].address = "AMBIENT_WARMPATH_CONTRACT"
          /\ LiveCalls[i].result = "None"

\* C23: the protocol components are one per non-reverted call to the main
\* contract with selector USER_CMD_FN_SIG for which decode_pool_init returned
\* Some, in traversal order, and nothing else adds one.
C23_ComponentOnlyForPoolInit ==
    (pool_changes.called /\ pool_changes.ok) =>
        LET inits == SelectSeq(LiveCalls,
                         LAMBDA call : /\ call.address = "AMBIENT_CONTRACT"
                                       /\ call.selector = "USER_CMD_FN_SIG"
                                       /\ call.result = "Some")
        IN  pool_changes.val.protocol_components
               = [k \in 1..Len(inits) |-> [id |-> PoolHash]]

\* a block was mapped with one component, holding besides the pool
\* initialisation a USER_CMD call with another opcode and a decoded call to
\* the warm-path contract
C23_Witness ==
    /\ pool_changes.called /\ pool_changes.ok
    /\ Len(pool_changes.val.protocol_components) = 1
    /\ \E i \in 1..Len(LiveCalls) :
          /\ LiveCalls[i].address = "AMBIENT_CONTRACT"
          /\ LiveCalls[i].selector = "USER_CMD_FN_SIG"
          /\ LiveCalls[i].result = "None"
    /\ \E i \in 1..Len(LiveCalls) :
          /\ LiveCalls[i].address = "AMBIENT_WARMPATH_CONTRACT"
          /\ LiveCalls[i].result = "Some"

--------------------------------------------------------------------------
(* SpecFold: three updates of one address and one block with strictly     *)
(* increasing transaction indices are merged in the two groupings.        *)

\* merge(merge(a, b), c): b is merged into a, then c into the result; an
\* error of the first merge is the outcome
FoldLeft(a, b, c) ==
    LET ab == AccountUpdateWithTxMerge(a, b)
    IN  IF ab.ok THEN AccountUpdateWithTxMerge(ab.self, c) ELSE ab

\* merge(a, merge(b, c)): c is merged into b, then the result into a; an
\* error of the first merge is the outcome and leaves a alone
FoldRight(a, b, c) ==
    LET bc == AccountUpdateWithTxMerge(b, c)
    IN  IF bc.ok THEN AccountUpdateWithTxMerge(a, bc.self) ELSE Err(a, bc.err)

\* the fold operands of address ad on block bh
FoldOperands(ad, bh) ==
    {x \in [update : FoldUpdates, tx : FoldTransactions] :
        x.update.address = ad /\ x.tx.block_hash = bh}

InitFold ==
    /\ \E ad \in Addresses, bh \in BlockHashes :
         \E a \in FoldOperands(ad, bh) :
            \E b \in {x \in FoldOperands(ad, bh) : a.tx.index < x.tx.index} :
               \E c \in {x \in FoldOperands(ad, bh) : b.tx.index < x.tx.index} :
                  operands = <<a, b, c>>
    /\ lhs = NotCalled /\ rhs = NotCalled
    /\ self = Unused /\ other = Unused /\ prev = Unused /\ res = NotCalled
    /\ msg = Unused /\ decoded = Unused /\ aggregated = Unused
    /\ block = Unused /\ pool_changes = NotCalled

Fold ==
    /\ ~lhs.called
    /\ lhs' = FoldLeft(operands[1], operands[2], operands[3])
    /\ rhs' = FoldRight(operands[1], operands[2], operands[3])
    /\ UNCHANGED <<operands, mergeVars, blockVars, poolVars>>

NextFold == Fold

SpecFold == InitFold /\ [][NextFold]_vars

Fold_Pre ==
    /\ operands[1].update.address = operands[2].update.address
    /\ operands[2].update.address = operands[3].update.address
    /\ operands[1].tx.block_hash = operands[2].tx.block_hash
    /\ operands[2].tx.block_hash = operands[3].tx.block_hash
    /\ operands[1].tx.index < operands[2].tx.index
    /\ operands[2].tx.index < operands[3].tx.index

Fold_DistinctTxs ==
    /\ operands[1].tx.hash # operands[2].tx.hash
    /\ operands[2].tx.hash # operands[3].tx.hash
    /\ operands[1].tx.hash # operands[3].tx.hash

\* C4 as stated: for updates a, b, c of one address and one block with
\* strictly increasing tx.index, merge(merge(a, b), c) and
\* merge(a, merge(b, c)) agree on Ok/Err and on the resulting update and tx.
C4_FoldAssociative ==
    (lhs.called /\ Fold_Pre) =>
        /\ lhs.ok = rhs.ok
        /\ lhs.self = rhs.self

\* C4 as amended: if moreover the three transaction hashes are pairwise
\* distinct, both groupings succeed and give the same update and tx.
C4_FoldAssociativeDistinctTxs ==
    (lhs.called /\ Fold_Pre /\ Fold_DistinctTxs) =>
        /\ lhs.ok /\ rhs.ok
        /\ lhs.self = rhs.self

\* three updates of distinct transactions that all set a balance and a slot,
\* to three results that differ from each operand's
C4_Witness ==
    /\ lhs.called /\ Fold_Pre /\ Fold_DistinctTxs
    /\ lhs.ok /\ rhs.ok
    /\ operands[1].update.balance # None
    /\ operands[2].update.balance # None
    /\ operands[3].update.balance # None
    /\ operands[1].update.balance # operands[3].update.balance
    /\ operands[1].update.slots # operands[2].update.slots
    /\ lhs.self.tx = operands[3].tx

--------------------------------------------------------------------------
(* Claims on the merge calls, checked under SpecMerge *)

AccountMergeCalled == res.called /\ self.kind = "AccountUpdateWithTx"
StatesMergeCalled == res.called /\ self.kind = "ProtocolStatesWithTx"

SameBlock == prev.tx.block_hash = other.tx.block_hash
SameTx == prev.tx.hash = other.tx.hash

\* C5: AccountUpdateWithTx::merge returns the MergeError naming both block
\* hashes whenever the block hashes of self and other differ, whatever the
\* transaction hashes and indices are.
C5_DifferentBlocksRejected ==
    (AccountMergeCalled /\ ~SameBlock) =>
        /\ ~res.ok
        /\ res.err = MergeError("Can't merge AccountUpdates from different blocks",
                                <<prev.tx.block_hash, other.tx.block_hash>>)

\* a cross-block merge of two updates of one transaction hash, the later
\* index first: only the block test can name both block hashes here
C5_Witness ==
    /\ AccountMergeCalled /\ ~SameBlock /\ SameTx
    /\ prev.tx.index > other.tx.index
    /\ ~res.ok

\* C6: AccountUpdateWithTx::merge returns a MergeError whenever both updates
\* carry the same transaction hash and leaves self as it was; merging an
\* update with a copy of itself is rejected by the same-transaction rule.
C6_SameTxRejected ==
    (AccountMergeCalled /\ SameTx) =>
        /\ ~res.ok
        /\ res.err.kind = "MergeError"
        /\ self.val = prev
        /\ (other = prev =>
               res.err = MergeError("Can't merge AccountUpdates from the same transaction",
                                    <<prev.tx.hash>>))

C6_Witness == AccountMergeCalled /\ other = prev /\ ~res.ok

\* C7: on one block and with distinct transaction hashes,
\* AccountUpdateWithTx::merge returns MergeError("... lower transaction
\* index: i > j") whenever self.tx.index i is greater than other.tx.index j.
C7_LowerIndexRejected ==
    (AccountMergeCalled /\ SameBlock /\ ~SameTx /\ prev.tx.index > other.tx.index) =>
        /\ ~res.ok
        /\ res.err = MergeError("Can't merge AccountUpdates with lower transaction index",
                                <<prev.tx.index, other.tx.index>>)

C7_Witness ==
    /\ AccountMergeCalled /\ SameBlock /\ ~SameTx
    /\ prev.tx.index > other.tx.index
    /\ prev.update.address = other.update.address
    /\ ~res.ok

\* C8 as stated: both merges fail whenever other.tx.index is equal to or
\* lower than self.tx.index.
C8_EqualOrLowerIndexRejected ==
    (res.called /\ other.tx.index <= prev.tx.index) => ~res.ok

\* C8 as amended: both merges return a MergeError whenever other.tx.index is
\* lower than self.tx.index; an equal index is not rejected by the index
\* rule: with distinct transaction hashes on one block the merge fails only
\* on differing identities.
C8_LowerIndexRejectedEqualAccepted ==
    res.called =>
        /\ (other.tx.index < prev.tx.index =>
               ~res.ok /\ res.err.kind = "MergeError")
        /\ ((other.tx.index = prev.tx.index /\ SameBlock /\ ~SameTx) =>
               \/ res.ok /\ self.val.tx = other.tx
               \/ /\ ~res.ok
                  /\ res.err.text \in
                        {"Can't merge AccountUpdates from differing identities",
                         "Can't merge ProtocolStates from differing identities"})

\* two component states of distinct transactions with one index on one block
\* are merged
C8_Witness ==
    /\ StatesMergeCalled /\ SameBlock /\ ~SameTx
    /\ other.tx.index = prev.tx.index
    /\ (DOMAIN prev.protocol_states) \cap (DOMAIN other.protocol_states) # {}
    /\ res.ok

\* the entries self.protocol_states and other.protocol_states share whose
\* component ids differ
MismatchedKeys ==
    {k \in (DOMAIN prev.protocol_states) \cap (DOMAIN other.protocol_states) :
        prev.protocol_states[k].component_id # other.protocol_states[k].component_id}

\* C9: ProtocolStatesWithTx::merge returns a MergeError and leaves self alone
\* when the block hashes differ, when the transaction hashes are equal or
\* when self.tx.index > other.tx.index; otherwise it sets self.tx to
\* other.tx and merges component-wise: ProtocolState::merge into an occupied
\* entry, plain insert for a vacant one, entries other does not name kept.
C9_StatesMergeRules ==
    StatesMergeCalled =>
        IF ~SameBlock
        THEN /\ res = Err(prev, MergeError("Can't merge ProtocolStates from different blocks",
                                           <<prev.tx.block_hash, other.tx.block_hash>>))
             /\ self.val = prev
        ELSE IF SameTx
        THEN /\ res = Err(prev, MergeError("Can't merge ProtocolStates from the same transaction",
                                           <<prev.tx.hash>>))
             /\ self.val = prev
        ELSE IF prev.tx.index > other.tx.index
        THEN /\ res = Err(prev, MergeError("Can't merge ProtocolStates with lower transaction index",
                                           <<prev.tx.index, other.tx.index>>))
             /\ self.val = prev
        ELSE /\ self.val.tx = other.tx
             /\ res.ok <=> MismatchedKeys = {}
             /\ res.ok =>
                  /\ DOMAIN self.val.protocol_states =
                        (DOMAIN prev.protocol_states) \cup (DOMAIN other.protocol_states)
                  /\ \A k \in DOMAIN self.val.protocol_states :
                        self.val.protocol_states[k] =
                            IF k \notin DOMAIN other.protocol_states
                            THEN prev.protocol_states[k]
                            ELSE IF k \notin DOMAIN prev.protocol_states
                            THEN other.protocol_states[k]
                            ELSE ProtocolStateMerge(prev.protocol_states[k],
                                                    other.protocol_states[k]).self

\* a merge that meets an occupied entry with other attribute values, a
\* vacant one and leaves nothing else to do
C9_Witness ==
    /\ StatesMergeCalled /\ res.ok
    /\ \E k \in (DOMAIN prev.protocol_states) \cap (DOMAIN other.protocol_states) :
          /\ prev.protocol_states[k].updated_attributes # other.protocol_states[k].updated_attributes
          /\ self.val.protocol_states[k] # other.protocol_states[k]
    /\ (DOMAIN other.protocol_states) \ (DOMAIN prev.protocol_states) # {}

\* C10: when AccountUpdateWithTx::merge succeeds, slots are those of self
\* overridden by those of other, balance and code are other's if set and
\* self's otherwise, change, address and chain are self's and tx is other's.
C10_AccountMergeResult ==
    (AccountMergeCalled /\ res.ok) =>
        LET new == self.val.update
            s == prev.update
            o == other.update
        IN  /\ DOMAIN new.slots = (DOMAIN s.slots) \cup (DOMAIN o.slots)
            /\ \A k \in DOMAIN o.slots : new.slots[k] = o.slots[k]
            /\ \A k \in (DOMAIN s.slots) \ (DOMAIN o.slots) : new.slots[k] = s.slots[k]
            /\ new.balance = (IF o.balance # None THEN o.balance ELSE s.balance)
            /\ new.code = (IF o.code # None THEN o.code ELSE s.code)
            /\ new.change = s.change
            /\ new.address = s.address
            /\ new.chain = s.chain
            /\ self.val.tx = other.tx

\* other overrides a slot and the code of self, leaves its balance and has
\* another chain and change type
C10_Witness ==
    /\ AccountMergeCalled /\ res.ok
    /\ \E k \in (DOMAIN prev.update.slots) \cap (DOMAIN other.update.slots) :
          prev.update.slots[k] # other.update.slots[k]
    /\ prev.update.balance # None /\ other.update.balance = None
    /\ prev.update.code # None /\ other.update.code # None
    /\ prev.update.code # other.update.code
    /\ prev.update.chain # other.update.chain
    /\ prev.update.change # other.update.change
    /\ prev.tx # other.tx

\* C33 (as stated): whenever AccountUpdateWithTx::merge returns a MergeError,
\* self is exactly what it was before the call: neither self.update nor
\* self.tx is modified.
C33_AccountMergeErrorLeavesSelf ==
    (AccountMergeCalled /\ ~res.ok) => self.val = prev

==========================================================================
